---- MODULE Spec2Model ----
(***************************************************************************)
(* Model of the event scraper (event_scraper_mcp_server.py): the event    *)
(* normaliser, the site-adapter registry, the static/dynamic tier         *)
(* pipeline (hybrid_fetch), the multi-strategy fallback chain, the        *)
(* listing search with retry, and the headless-browser sessions they own. *)
(*                                                                         *)
(* Python values are tagged tuples: <<"null">>, <<"bool", b>>,            *)
(* <<"num", n>>, <<"str", s>>, <<"list", q>>, <<"obj", f>> (f a function  *)
(* from key strings to values); <<"html", doc>> is the non-blank text of a *)
(* page.  An exception is a result <<"raise", m>>.                        *)
(***************************************************************************)
EXTENDS Integers, Sequences, FiniteSets, TLC

\* ------------------------------------------------------------------------
\* Python values
\* ------------------------------------------------------------------------
Null == <<"null">>
Bool(b) == <<"bool", b>>
Num(n) == <<"num", n>>
Str(s) == <<"str", s>>
List(q) == <<"list", q>>
Obj(f) == <<"obj", f>>
EmptyDict == <<>>

IsNull(v) == v[1] = "null"
IsStr(v) == v[1] = "str"
IsList(v) == v[1] = "list"
IsDict(v) == v[1] = "obj"

\* bool(v)
Truthy(v) ==
    CASE v[1] = "null" -> FALSE
      [] v[1] = "bool" -> v[2]
      [] v[1] = "num" -> v[2] # 0
      [] v[1] = "str" -> Len(v[2]) > 0
      [] v[1] = "list" -> Len(v[2]) > 0
      [] v[1] = "obj" -> DOMAIN v[2] # {}
      [] v[1] = "html" -> TRUE

\* d.get(k) on a dict value
Get(d, k) == IF k \in DOMAIN d[2] THEN d[2][k] ELSE Null

\* d[k] = v on a dict value
Put(d, k, v) == Obj([x \in (DOMAIN d[2]) \cup {k} |-> IF x = k THEN v ELSE d[2][x]])

\* v in (None, "", [])
IsBlank(v) ==
    \/ v[1] = "null"
    \/ v[1] = "str" /\ Len(v[2]) = 0
    \/ v[1] = "list" /\ Len(v[2]) = 0

\* ------------------------------------------------------------------------
\* Schema helpers
\* ------------------------------------------------------------------------
CanonicalKeys ==
    {"source_url", "title", "description", "start", "end", "location",
     "raw_location", "price", "currency", "organizer", "status",
     "event_attendance_mode", "images", "raw_jsonld", "scrape_method"}

\* `base` built without the url it is given
BaseEvent_NoSource(url) ==
    [k \in CanonicalKeys |-> IF k = "images" THEN List(<<>>) ELSE Null]

\* the dict `base` built at the top of ensure_event_shape
BaseEvent(url) ==
    [k \in CanonicalKeys |->
        IF k = "source_url" THEN Str(url)
        ELSE IF k = "images" THEN List(<<>>)
        ELSE Null]

\* ensure_event_shape without the overlay on `base`: the record as given
ensure_event_shape_AsGiven(ev, url) ==
    IF ~Truthy(ev) THEN Obj(EmptyDict) ELSE ev

ensure_event_shape(ev, url) ==
    IF ~Truthy(ev) THEN Obj(BaseEvent(url))
    ELSE Obj([k \in CanonicalKeys \cup DOMAIN ev[2] |->
                IF k \in CanonicalKeys
                THEN IF k \in DOMAIN ev[2] /\ ~IsNull(ev[2][k])
                     THEN ev[2][k] ELSE BaseEvent(url)[k]
                ELSE ev[2][k]])

RichThreshold == 2

\* the rule of the docstring: a title AND (a start time OR a location)
is_event_rich_TitleRequired(ev) ==
    IF ~Truthy(ev) \/ ~IsDict(ev) THEN FALSE
    ELSE Truthy(Get(ev, "title")) /\ (Truthy(Get(ev, "start")) \/ Truthy(Get(ev, "location")))

is_event_rich(ev) ==
    IF ~Truthy(ev) \/ ~IsDict(ev) THEN FALSE
    ELSE LET has_title == Truthy(Get(ev, "title"))
             has_time == Truthy(Get(ev, "start"))
             has_location == Truthy(Get(ev, "location"))
             int(b) == IF b THEN 1 ELSE 0
             score == int(has_title) + int(has_time) + int(has_location)
         IN score >= RichThreshold

\* the loop with `if not a.get(k) and v:` as its test
MergeFields_Falsy(a, b) ==
    Obj([k \in (DOMAIN a[2]) \cup {x \in DOMAIN b[2] : Truthy(b[2][x])} |->
            IF ~Truthy(Get(a, k)) /\ k \in DOMAIN b[2] /\ Truthy(b[2][k])
            THEN b[2][k] ELSE a[2][k]])

\* the loop `for k, v in b.items(): if a.get(k) in (None, "", []) and
\* v not in (None, "", []): a[k] = v`
MergeFields(a, b) ==
    Obj([k \in (DOMAIN a[2]) \cup {x \in DOMAIN b[2] : ~IsBlank(b[2][x])} |->
            IF IsBlank(Get(a, k)) /\ k \in DOMAIN b[2] /\ ~IsBlank(b[2][k])
            THEN b[2][k] ELSE a[2][k]])

\* ------------------------------------------------------------------------
\* Strings
\* ------------------------------------------------------------------------
LowerChar(c) ==
    LET lower == [A |-> "a", B |-> "b", C |-> "c", D |-> "d", E |-> "e", F |-> "f", G |-> "g",
                  H |-> "h", I |-> "i", J |-> "j", K |-> "k", L |-> "l", M |-> "m", N |-> "n",
                  O |-> "o", P |-> "p", Q |-> "q", R |-> "r", S |-> "s", T |-> "t", U |-> "u",
                  V |-> "v", W |-> "w", X |-> "x", Y |-> "y", Z |-> "z"]
    IN IF c \in DOMAIN lower THEN lower[c] ELSE c

RECURSIVE Lower(_)
\* str.lower()
Lower(s) == IF Len(s) = 0 THEN s ELSE LowerChar(SubSeq(s, 1, 1)) \o Lower(Tail(s))

\* needle in s
Contains(s, needle) ==
    \E i \in 1..(Len(s) - Len(needle) + 1) : SubSeq(s, i, i + Len(needle) - 1) = needle

\* s.startswith(prefix)
StartsWith(s, prefix) == Len(s) >= Len(prefix) /\ SubSeq(s, 1, Len(prefix)) = prefix

RECURSIVE Strip(_)
\* str.strip()
Strip(s) ==
    IF Len(s) > 0 /\ SubSeq(s, 1, 1) = " " THEN Strip(Tail(s))
    ELSE IF Len(s) > 0 /\ SubSeq(s, Len(s), Len(s)) = " "
    THEN Strip(SubSeq(s, 1, Len(s) - 1))
    ELSE s

RECURSIVE JoinStrs(_)
\* ", ".join(q) for a sequence of strings
JoinStrs(q) ==
    IF Len(q) = 0 THEN ""
    ELSE IF Len(q) = 1 THEN q[1]
    ELSE q[1] \o ", " \o JoinStrs(Tail(q))

\* [p for p in q if p]
KeepTruthy(q) == SelectSeq(q, LAMBDA v : Truthy(v))

\* ------------------------------------------------------------------------
\* Site adapter registry
\* ------------------------------------------------------------------------
SITE_ADAPTERS == <<"ticketmaster", "eventbrite", "facebook", "meetup", "eventful">>

\* adapter.matches(url), per adapter class
AdapterMatches(a, url) ==
    CASE a = "ticketmaster" -> Contains(Lower(url), "ticketmaster")
      [] a = "eventbrite" -> Contains(Lower(url), "eventbrite")
      [] a = "facebook" -> Contains(Lower(url), "facebook.com") /\ Contains(Lower(url), "events")
      [] a = "meetup" -> Contains(Lower(url), "meetup.com") /\ Contains(Lower(url), "/events/")
      [] a = "eventful" -> Contains(Lower(url), "eventful.com")

NoAdapter == "none"

\* the scan that keeps going after a match: the last adapter that matches
get_site_adapter_LastMatch(url) ==
    IF \E i \in 1..Len(SITE_ADAPTERS) : AdapterMatches(SITE_ADAPTERS[i], url)
    THEN LET i == CHOOSE j \in 1..Len(SITE_ADAPTERS) :
                    /\ AdapterMatches(SITE_ADAPTERS[j], url)
                    /\ \A k \in (j + 1)..Len(SITE_ADAPTERS) :
                          ~AdapterMatches(SITE_ADAPTERS[k], url)
         IN SITE_ADAPTERS[i]
    ELSE NoAdapter

\* first adapter of the registry that matches, else none
get_site_adapter(url) ==
    IF \E i \in 1..Len(SITE_ADAPTERS) : AdapterMatches(SITE_ADAPTERS[i], url)
    THEN LET i == CHOOSE j \in 1..Len(SITE_ADAPTERS) :
                    /\ AdapterMatches(SITE_ADAPTERS[j], url)
                    /\ \A k \in 1..(j - 1) : ~AdapterMatches(SITE_ADAPTERS[k], url)
         IN SITE_ADAPTERS[i]
    ELSE NoAdapter

\* ------------------------------------------------------------------------
\* Exceptions as values
\* ------------------------------------------------------------------------
Raise(msg) == <<"raise", msg>>
IsRaise(v) == v[1] = "raise"

\* ", ".join(q): a TypeError when an item is not a string
PyJoin(q) ==
    IF \E i \in 1..Len(q) : ~IsStr(q[i])
    THEN Raise("sequence item: expected str instance")
    ELSE Str(JoinStrs([i \in 1..Len(q) |-> q[i][2]]))

\* a or b
PyOr(a, b) == IF Truthy(a) THEN a ELSE b

\* ------------------------------------------------------------------------
\* HTML documents, as the parser sees them.  A document is a record
\*   scripts   : payloads of the application/ld+json script tags, in
\*               document order; <<"malformed">> when json.loads raises
\*   og_title, meta_desc, og_desc : the meta tag (an attribute dict) or Null
\*   title     : soup.title.string (Null when absent)
\*   h1s       : the h1 elements, each [class, text]
\*   times     : the datetime attribute of each time element (Null if unset)
\*   located   : text of each element whose class or id contains
\*               "location" or "venue", in document order
\*   og_images : the content attribute of each og:image meta tag
\*   imgs      : the img elements, each [src, alt] (Null when unset)
\*   videos    : per video element, its source elements, each [src, type]
\*   iframes   : the src attribute of each iframe element
\* ------------------------------------------------------------------------
Malformed == <<"malformed">>

\* _safe_get_attr(tag, attr_name)
safe_get_attr(tag, attr_name) ==
    IF ~Truthy(tag) THEN Null
    ELSE LET value == Get(tag, attr_name)
         IN IF IsStr(value) THEN Str(Strip(value[2])) ELSE Null

RECURSIVE Candidates(_)
\* the candidate objects of all script blocks, in scan order; a block that
\* fails to parse, or is neither a list nor a dict, contributes none
Candidates(scripts) ==
    IF Len(scripts) = 0 THEN <<>>
    ELSE LET data == scripts[1]
             here == IF data = Malformed THEN <<>>
                     ELSE IF IsList(data) THEN data[2]
                     ELSE IF IsDict(data) THEN <<data>>
                     ELSE <<>>
         IN here \o Candidates(Tail(scripts))

IsEventType(obj) ==
    /\ IsDict(obj)
    /\ \/ Get(obj, "@type") = Str("Event")
       \/ Get(obj, "@type") = List(<<Str("Event")>>)

_normalize_event_from_jsonld(obj, url) ==
    LET locRaw == Get(obj, "location")
        loc == IF IsNull(locRaw) THEN Obj(EmptyDict) ELSE locRaw
        location_name == IF IsDict(loc) THEN PyOr(Get(loc, "name"), Get(loc, "@name")) ELSE Null
        addr == IF IsDict(loc) THEN Get(loc, "address") ELSE Null
        address_str ==
            IF IsDict(addr)
            THEN PyJoin(KeepTruthy(<<Get(addr, "streetAddress"), Get(addr, "addressLocality"),
                                 Get(addr, "addressRegion"), Get(addr, "postalCode"),
                                 Get(addr, "addressCountry")>>))
            ELSE IF IsStr(addr) THEN addr ELSE Null
        joined == PyJoin(KeepTruthy(<<location_name, address_str>>))
        location_combined == PyOr(joined, Null)
        offers == Get(obj, "offers")
        price == IF IsDict(offers) THEN Get(offers, "price") ELSE Null
        currency == IF IsDict(offers) THEN Get(offers, "priceCurrency") ELSE Null
        organizer_obj == Get(obj, "organizer")
        organizer_name ==
            IF IsDict(organizer_obj) THEN Get(organizer_obj, "name")
            ELSE IF IsStr(organizer_obj) THEN organizer_obj ELSE Null
        img == Get(obj, "image")
        images ==
            IF IsStr(img) THEN <<img>>
            ELSE IF IsList(img) THEN SelectSeq(img[2], LAMBDA v : IsStr(v)) ELSE <<>>
        event ==
            [source_url |-> Str(url),
             title |-> Get(obj, "name"),
             description |-> Get(obj, "description"),
             start |-> Get(obj, "startDate"),
             end |-> Get(obj, "endDate"),
             location |-> location_combined,
             raw_location |-> loc,
             price |-> price,
             currency |-> currency,
             organizer |-> organizer_name,
             status |-> Get(obj, "eventStatus"),
             event_attendance_mode |-> Get(obj, "eventAttendanceMode"),
             images |-> List(images),
             raw_jsonld |-> obj]
    IN IF IsRaise(address_str) THEN address_str
       ELSE IF IsRaise(joined) THEN joined
       ELSE ensure_event_shape(Obj(event), url)

\* Null when no candidate is an Event
\* the scan that gives up at a block that fails to parse
_parse_event_from_jsonld_StopsAtBadBlock(html, url) ==
    IF \E b \in 1..Len(html.scripts) : html.scripts[b] = Malformed THEN Null
    ELSE LET cands == Candidates(html.scripts)
         IN IF \E i \in 1..Len(cands) : IsEventType(cands[i])
            THEN LET i == CHOOSE j \in 1..Len(cands) :
                            /\ IsEventType(cands[j])
                            /\ \A k \in 1..(j - 1) : ~IsEventType(cands[k])
                 IN _normalize_event_from_jsonld(cands[i], url)
            ELSE Null

_parse_event_from_jsonld(html, url) ==
    LET cands == Candidates(html.scripts)
    IN IF \E i \in 1..Len(cands) : IsEventType(cands[i])
       THEN LET i == CHOOSE j \in 1..Len(cands) :
                       /\ IsEventType(cands[j])
                       /\ \A k \in 1..(j - 1) : ~IsEventType(cands[k])
            IN _normalize_event_from_jsonld(cands[i], url)
       ELSE Null

DomImageCap == 5

\* q[:n]
Take(q, n) == SubSeq(q, 1, IF Len(q) < n THEN Len(q) ELSE n)

_parse_event_from_dom(html, url) ==
    LET t1 == IF Truthy(html.og_title) THEN safe_get_attr(html.og_title, "content") ELSE Null
        t2 == IF ~Truthy(t1) /\ Truthy(html.title) THEN Str(Strip(html.title[2])) ELSE t1
        t3 == IF ~Truthy(t2) /\ Len(html.h1s) > 0 /\ Len(Strip(html.h1s[1].text)) > 0
              THEN Str(Strip(html.h1s[1].text)) ELSE t2
        d0 == safe_get_attr(html.meta_desc, "content")
        d1 == IF Truthy(html.meta_desc) /\ Truthy(d0) THEN d0 ELSE Null
        d2c == safe_get_attr(html.og_desc, "content")
        d2 == IF ~Truthy(d1) /\ Truthy(html.og_desc) /\ Truthy(d2c) THEN d2c ELSE d1
        dt_values == KeepTruthy(html.times)
        start == IF Len(dt_values) > 0 THEN dt_values[1] ELSE Null
        end == IF Len(dt_values) > 1 THEN dt_values[2] ELSE Null
        locTexts == [i \in 1..Len(html.located) |-> Strip(html.located[i])]
        location ==
            IF \E i \in 1..Len(locTexts) : Len(locTexts[i]) > 3
            THEN Str(locTexts[CHOOSE j \in 1..Len(locTexts) :
                        /\ Len(locTexts[j]) > 3
                        /\ \A k \in 1..(j - 1) : Len(locTexts[k]) <= 3])
            ELSE Null
        og == KeepTruthy(html.og_images)
        images == IF Len(og) > 0 THEN og
                  ELSE KeepTruthy([i \in 1..Len(html.imgs) |-> html.imgs[i].src])
        event ==
            [source_url |-> Str(url),
             title |-> t3,
             description |-> d2,
             start |-> start,
             end |-> end,
             location |-> location,
             raw_location |-> Null,
             price |-> Null,
             currency |-> Null,
             organizer |-> Null,
             status |-> Null,
             event_attendance_mode |-> Null,
             images |-> List(Take(images, DomImageCap)),
             raw_jsonld |-> Null]
    IN ensure_event_shape(Obj(event), url)

\* JSON-LD first, backfilled by the DOM heuristics; a raise propagates
parse_event_html(html, url) ==
    LET event == _parse_event_from_jsonld(html, url)
    IN IF IsRaise(event) THEN event
       ELSE IF Truthy(event)
       THEN ensure_event_shape(MergeFields(event, _parse_event_from_dom(html, url)), url)
       ELSE _parse_event_from_dom(html, url)

\* ------------------------------------------------------------------------
\* extract_event_media
\* ------------------------------------------------------------------------
MediaImageCap == 20
MediaVideoCap == 10

RECURSIVE ImgEntries(_)
ImgEntries(imgs) ==
    IF Len(imgs) = 0 THEN <<>>
    ELSE (IF Truthy(imgs[1].src)
          THEN <<Obj([url |-> imgs[1].src,
                      alt |-> IF IsNull(imgs[1].alt) THEN Str("") ELSE imgs[1].alt])>>
          ELSE <<>>) \o ImgEntries(Tail(imgs))

RECURSIVE SourceEntries(_)
SourceEntries(sources) ==
    IF Len(sources) = 0 THEN <<>>
    ELSE (IF Truthy(sources[1].src)
          THEN <<Obj([url |-> sources[1].src,
                      type |-> IF IsNull(sources[1].type) THEN Str("") ELSE sources[1].type])>>
          ELSE <<>>) \o SourceEntries(Tail(sources))

RECURSIVE VideoEntries(_)
VideoEntries(videos) ==
    IF Len(videos) = 0 THEN <<>>
    ELSE SourceEntries(videos[1]) \o VideoEntries(Tail(videos))

RECURSIVE IframeEntries(_)
IframeEntries(iframes) ==
    IF Len(iframes) = 0 THEN <<>>
    ELSE (IF /\ Truthy(iframes[1])
             /\ \/ Contains(iframes[1][2], "youtube.com")
                \/ Contains(iframes[1][2], "youtu.be")
          THEN <<Obj([url |-> iframes[1], type |-> Str("youtube")])>>
          ELSE <<>>) \o IframeEntries(Tail(iframes))

RECURSIVE OgImageEntries(_)
OgImageEntries(contents) ==
    IF Len(contents) = 0 THEN <<>>
    ELSE (IF Truthy(contents[1])
          THEN <<Obj([url |-> contents[1], source |-> Str("og:image")])>>
          ELSE <<>>) \o OgImageEntries(Tail(contents))

MediaReturn(u, images, videos) ==
    Obj([url |-> Str(u),
         images |-> List(Take(images, MediaImageCap)),
         videos |-> List(Take(videos, MediaVideoCap)),
         total_images |-> Num(Len(images)),
         total_videos |-> Num(Len(videos))])

extract_event_media(html, u) ==
    MediaReturn(u,
                ImgEntries(html.imgs) \o OgImageEntries(html.og_images),
                VideoEntries(html.videos) \o IframeEntries(html.iframes))

\* ------------------------------------------------------------------------
\* Site adapters: extract_event
\* ------------------------------------------------------------------------
\* re.compile("event.*title", re.I) found in the class

\* text of the first h1 whose class matches, "" when there is none
FirstH1Text(h1s, a) ==
    LET \* re.compile("event.*title", re.I) / re.compile("eventTitle", re.I)
        \* found in the class
        Hit(h) ==
            IF a = "ticketmaster"
            THEN \E i \in 1..(Len(h.cls) - 4) :
                    /\ SubSeq(Lower(h.cls), i, i + 4) = "event"
                    /\ Contains(SubSeq(Lower(h.cls), i + 5, Len(h.cls)), "title")
            ELSE Contains(Lower(h.cls), "eventtitle")
    IN IF \E i \in 1..Len(h1s) : Hit(h1s[i])
       THEN Strip(h1s[CHOOSE j \in 1..Len(h1s) :
                    /\ Hit(h1s[j])
                    /\ \A k \in 1..(j - 1) : ~Hit(h1s[k])].text)
       ELSE ""

\* the adapter that also takes the location from Open-Graph metadata
FacebookExtract_ReadsLocation(html, url) ==
    LET base0 == ensure_event_shape(Null, url)
        base1 == Put(base0, "title", safe_get_attr(html.og_title, "content"))
        base2 == Put(base1, "description", safe_get_attr(html.og_desc, "content"))
        base3 == Put(base2, "location", Get(base2, "description"))
        base == Put(base3, "scrape_method", Str("facebook_adapter"))
    IN IF is_event_rich(base) THEN base ELSE Null

\* FacebookEventsAdapter.extract_event: Open-Graph metadata only
FacebookExtract(html, url) ==
    LET first_image == IF Len(html.og_images) > 0
                       THEN safe_get_attr(Obj([content |-> html.og_images[1]]), "content")
                       ELSE Null
        images == IF Truthy(first_image) THEN <<first_image>> ELSE <<>>
        base0 == ensure_event_shape(Null, url)
        base1 == Put(base0, "title", safe_get_attr(html.og_title, "content"))
        base2 == Put(base1, "description", safe_get_attr(html.og_desc, "content"))
        base3 == Put(base2, "images", List(images))
        base == Put(base3, "scrape_method", Str("facebook_adapter"))
    IN IF is_event_rich(base) THEN base ELSE Null

\* the tail of extract_event once the generic pipeline has run: stamp the
\* method, override the title from the platform's selector, shape, gate
AdapterFinish(a, parsed, h1text, url) ==
    IF IsRaise(parsed) THEN parsed
    ELSE LET stamped == Put(parsed, "scrape_method", Str(a \o "_adapter"))
             base == ensure_event_shape(
                        IF Len(h1text) > 0 THEN Put(stamped, "title", Str(h1text)) ELSE stamped,
                        url)
         IN IF is_event_rich(base) THEN base ELSE Null

\* Ticketmaster / Eventbrite / Meetup / Eventful extract_event: the generic
\* pipeline, stamped, with the platform's title selector where there is one
GenericAdapterExtract(a, html, url) ==
    AdapterFinish(a, parse_event_html(html, url),
                  IF a \in {"ticketmaster", "eventbrite"} THEN FirstH1Text(html.h1s, a) ELSE "",
                  url)

extract_event(a, html, url) ==
    IF a = "facebook" THEN FacebookExtract(html, url)
    ELSE GenericAdapterExtract(a, html, url)

\* ------------------------------------------------------------------------
\* hybrid_fetch: one tier's extraction (lines 489-504 and 518-531), and
\* the three kinds of result
\* ------------------------------------------------------------------------
\* lines 494-504: keep a rich adapter record; otherwise the generic record,
\* or the adapter's partial record backfilled from it
TierMerge(fromAdapter, generic, url) ==
    IF IsRaise(fromAdapter) THEN fromAdapter
    ELSE IF ~Truthy(fromAdapter) \/ ~is_event_rich(fromAdapter)
    THEN IF IsRaise(generic) THEN generic
         ELSE IF Truthy(fromAdapter)
         THEN ensure_event_shape(MergeFields(fromAdapter, generic), url)
         ELSE ensure_event_shape(generic, url)
    ELSE ensure_event_shape(fromAdapter, url)

\* html is Null when the fetch yielded nothing
TierEvent(adapter, html, url) ==
    IF IsNull(html) THEN Null
    ELSE TierMerge(IF adapter # NoAdapter THEN extract_event(adapter, html[2], url) ELSE Null,
                   parse_event_html(html[2], url),
                   url)

\* the success result whose event is left without the tier's stamp
TierSuccess_EventUnstamped(ev, method) ==
    Obj([event |-> ev,
         scrape_method |-> IF ~Truthy(Get(ev, "scrape_method")) THEN Str(method)
                           ELSE Get(ev, "scrape_method")])

TierSuccess(ev, method) ==
    LET stamped == IF ~Truthy(Get(ev, "scrape_method"))
                   THEN Put(ev, "scrape_method", Str(method)) ELSE ev
    IN Obj([event |-> stamped, scrape_method |-> Get(stamped, "scrape_method")])

TotalFailure(static_ev, dynamic_ev, url) ==
    LET best0 == PyOr(dynamic_ev, static_ev)
        best == IF Truthy(best0) THEN ensure_event_shape(best0, url)
                ELSE ensure_event_shape(Null, url)
    IN Obj([event |-> Put(best, "scrape_method", Str("failed")),
            scrape_method |-> Str("failed"),
            error |-> Str("Could not extract a rich event; check the URL or page structure.")])

\* ------------------------------------------------------------------------
\* Collaborator responses
\* ------------------------------------------------------------------------
Html(doc) == <<"html", doc>>

\* ------------------------------------------------------------------------
\* The documents and URLs the model draws its inputs from
\* ------------------------------------------------------------------------
\* the documents a fetch can deliver
Docs ==
    LET EmptyDoc ==
            [scripts |-> <<>>, og_title |-> Null, title |-> Null, h1s |-> <<>>,
             meta_desc |-> Null, og_desc |-> Null, times |-> <<>>, located |-> <<>>,
             og_images |-> <<>>, imgs |-> <<>>, videos |-> <<>>, iframes |-> <<>>]
        Meta(prop, content) == Obj([property |-> Str(prop), content |-> Str(content)])
        \* a page with no event signal at all
        DocBlank == EmptyDoc
        \* only a document title
        DocTitleOnly == [EmptyDoc EXCEPT !.title = Str(" Gig Night ")]
        \* rich from the DOM alone: Open-Graph title and a time element
        DocDomRich ==
            [EmptyDoc EXCEPT !.og_title = Meta("og:title", "Gig"),
                             !.og_desc = Meta("og:description", "Live"),
                             !.times = <<Null, Str("2024-05-01T20:00:00Z"), Str("2024-05-01T23:00:00Z")>>,
                             !.og_images = <<Str("https://img/og.png")>>]
        GigEvent ==
            Obj(("@type" :> Str("Event")) @@
                [name |-> Str("Gig"),
                 url |-> Str("https://tickets.example/gig"),
                 startDate |-> Str("2024-05-01T20:00:00Z"),
                 location |-> Obj([name |-> Str("Hall"),
                                   address |-> Obj([streetAddress |-> Str("1 Main St"),
                                                    addressLocality |-> Str("Springfield")])]),
                 offers |-> Obj([price |-> Num(25), priceCurrency |-> Str("USD")]),
                 image |-> Str("https://img/gig.png")])
        \* rich from structured data: a malformed block, then the Event
        DocLdRich == [EmptyDoc EXCEPT !.scripts = <<Malformed, GigEvent>>, !.title = Str("Gig | Hall")]
        \* structured data whose postal code is a JSON number: the address join raises
        BadZipEvent ==
            Obj(("@type" :> Str("Event")) @@
                [name |-> Str("Gig"),
                 startDate |-> Str("2024-05-01T20:00:00Z"),
                 location |-> Obj([name |-> Str("Hall"),
                                   address |-> Obj([streetAddress |-> Str("1 Main St"),
                                                    postalCode |-> Num(90210)])])])
        DocLdBadZip == [EmptyDoc EXCEPT !.scripts = <<BadZipEvent>>, !.title = Str("Gig")]
        \* structured data with a name only, inside a list payload; nothing in the DOM
        DocLdPartial ==
            [EmptyDoc EXCEPT !.scripts =
                <<List(<<Str("x"), Obj(("@type" :> Str("Organization")) @@ [name |-> Str("Org")]),
                         Obj(("@type" :> List(<<Str("Event")>>)) @@ [name |-> Str("Solo")])>>)>>]
        \* a platform page: a title heading and a venue element, no structured data
        DocVenue ==
            [EmptyDoc EXCEPT !.h1s = <<[cls |-> "page", text |-> "Welcome"],
                                       [cls |-> "Event-Header-Title", text |-> " Big Show "]>>,
                             !.located = <<"TBA", " Main Arena ">>,
                             !.imgs = <<[src |-> Str("a.png"), alt |-> Str("stage")],
                                        [src |-> Null, alt |-> Null],
                                        [src |-> Str("b.png"), alt |-> Null]>>,
                             !.videos = <<<<[src |-> Str("clip.mp4"), type |-> Str("video/mp4")],
                                            [src |-> Null, type |-> Null]>>>>,
                             !.iframes = <<Str("https://www.youtube.com/embed/x"), Str("https://maps/x"), Null>>]
        \* structured data with six images, and one more in the DOM
        DocLdGallery ==
            [EmptyDoc EXCEPT !.scripts =
                <<Obj(("@type" :> Str("Event")) @@
                      [name |-> Str("Expo"),
                       startDate |-> Str("2024-06-01T10:00:00Z"),
                       image |-> List(<<Str("https://img/1.png"), Str("https://img/2.png"),
                                        Str("https://img/3.png"), Num(4),
                                        Str("https://img/4.png"), Str("https://img/5.png"),
                                        Str("https://img/6.png")>>)])>>,
                             !.og_images = <<Str("https://img/og.png")>>]
        \* an og:title tag whose content is empty, and nothing else
        DocOgEmpty == [EmptyDoc EXCEPT !.og_title = Meta("og:title", "")]
    IN {DocBlank, DocTitleOnly, DocDomRich, DocLdRich, DocLdBadZip, DocLdPartial, DocVenue,
        DocLdGallery, DocOgEmpty}

URLs ==
    {"",
     "https://example.com/e/1",
     "https://www.ticketmaster.com/event/123",
     "https://www.eventbrite.com/e/456",
     "https://www.facebook.com/events/789",
     "https://WWW.MEETUP.com/g/Events/1",
     "https://www.meetup.com/g/123"}

\* client.get raises on a url without a scheme and host
Reachable(u) == Len(u) > 0

\* ------------------------------------------------------------------------
\* URLs and text formatting
\* ------------------------------------------------------------------------
\* index of the first occurrence of needle in s, 0 when there is none
IndexOf(s, needle) ==
    IF Contains(s, needle)
    THEN CHOOSE i \in 1..(Len(s) - Len(needle) + 1) :
            /\ SubSeq(s, i, i + Len(needle) - 1) = needle
            /\ \A k \in 1..(i - 1) : SubSeq(s, k, k + Len(needle) - 1) # needle
    ELSE 0

\* f"{parsed.scheme}://{parsed.netloc}" for parsed = urlparse(u)
UrlOrigin(u) ==
    LET i == IndexOf(u, "://")
        rest == SubSeq(u, i + 3, Len(u))
        stops == {k \in 1..Len(rest) : SubSeq(rest, k, k) \in {"/", "?", "#"}}
        netloc == IF stops = {} THEN rest
                  ELSE SubSeq(rest, 1, (CHOOSE k \in stops : \A m \in stops : k <= m) - 1)
    IN IF i = 0 THEN "://" ELSE SubSeq(u, 1, i + 2) \o netloc

\* urljoin(base, link) for a link that is a root-relative path
UrlJoin(base, link) == IF UrlOrigin(base) = "://" THEN link ELSE UrlOrigin(base) \o link

RECURSIVE NatText(_)
\* str(n) for a natural number
NatText(n) ==
    IF n < 10 THEN SubSeq("0123456789", n + 1, n + 1)
    ELSE NatText(n \div 10) \o SubSeq("0123456789", (n % 10) + 1, (n % 10) + 1)

\* f"{v}" for the values that reach an f-string
ToText(v) ==
    CASE v[1] = "null" -> "None"
      [] v[1] = "str" -> v[2]
      [] v[1] = "num" -> NatText(v[2])

\* ------------------------------------------------------------------------
\* search_event_listings: what it reads from the rendered listing page.
\* A listing page gives, for each entry of event_selectors, either the
\* elements it matches or <<"raise", m>> when the count query raises.  A
\* card gives its text (what has_text filters on), and for each
\* title/date/location/price selector either the inner text of its first
\* match or <<"raise", m>>; href is the first link's attribute.
\* ------------------------------------------------------------------------
ListingCap == 20

NoMatch == Raise("locator timeout")

Card(text, title, date, location, price, href) ==
    [text |-> text, title |-> title, date |-> date, location |-> location,
     price |-> price, href |-> href]

\* the first selector whose inner text is read and non-empty: <<v>>, else <<>>
FirstText(outcomes) ==
    IF \E i \in 1..Len(outcomes) : ~IsRaise(outcomes[i]) /\ Truthy(outcomes[i])
    THEN LET i == CHOOSE j \in 1..Len(outcomes) :
                    /\ ~IsRaise(outcomes[j]) /\ Truthy(outcomes[j])
                    /\ \A k \in 1..(j - 1) : IsRaise(outcomes[k]) \/ ~Truthy(outcomes[k])
         IN <<Str(Strip(outcomes[i][2]))>>
    ELSE <<>>

\* d with key k set when the optional value is there
PutIf(d, k, opt) == IF Len(opt) > 0 THEN Put(d, k, opt[1]) ELSE d

CardLink(card, u) ==
    IF IsRaise(card.href) \/ ~Truthy(card.href) THEN <<>>
    ELSE IF StartsWith(card.href[2], "http") THEN <<card.href>>
    ELSE <<Str(UrlJoin(u, card.href[2]))>>

\* lines 760-816: event_data of the i-th matching card
CardData(card, i, u) ==
    PutIf(PutIf(PutIf(PutIf(PutIf(Obj([position |-> Num(i)]),
        "title", FirstText(card.title)),
        "date", FirstText(card.date)),
        "location", FirstText(card.location)),
        "price", FirstText(card.price)),
        "url", CardLink(card, u))

\* event_locator.filter(has_text=f): case-insensitive substring of the text
RECURSIVE FilterCards(_, _)
FilterCards(cs, f) ==
    IF Len(cs) = 0 THEN <<>>
    ELSE (IF Contains(Lower(cs[1].text), Lower(f)) THEN <<cs[1]>> ELSE <<>>)
         \o FilterCards(Tail(cs), f)

ApplyFilters(cs, loc, kw) ==
    LET byLoc == IF Truthy(loc) THEN FilterCards(cs, loc[2]) ELSE cs
    IN IF Truthy(kw) THEN FilterCards(byLoc, kw[2]) ELSE byLoc

\* the loop that ends at a selector whose count query raises
DetectSelector_StopsAtRaise(page) ==
    IF \E i \in 1..Len(page) :
            /\ ~IsRaise(page[i]) /\ Len(page[i][2]) > 0
            /\ \A k \in 1..(i - 1) : ~IsRaise(page[k]) /\ Len(page[k][2]) = 0
    THEN CHOOSE i \in 1..Len(page) :
            /\ ~IsRaise(page[i]) /\ Len(page[i][2]) > 0
            /\ \A k \in 1..(i - 1) : ~IsRaise(page[k]) /\ Len(page[k][2]) = 0
    ELSE 0

\* index of the first event selector that counts at least one element, else 0
DetectSelector(page) ==
    IF \E i \in 1..Len(page) : ~IsRaise(page[i]) /\ Len(page[i][2]) > 0
    THEN CHOOSE i \in 1..Len(page) :
            /\ ~IsRaise(page[i]) /\ Len(page[i][2]) > 0
            /\ \A k \in 1..(i - 1) : IsRaise(page[k]) \/ Len(page[k][2]) = 0
    ELSE 0

NoCardsReturn(u) ==
    Obj([url |-> Str(u), events |-> List(<<>>),
         error |-> Str("Could not find event cards on page")])

\* lines 754-832, matched being the elements left after the filters
SearchReturn(u, matched, loc, kw) ==
    LET n == IF Len(matched) < ListingCap THEN Len(matched) ELSE ListingCap
    IN Obj([url |-> Str(u),
            events |-> List([i \in 1..n |-> CardData(matched[i], i, u)]),
            total_found |-> Num(Len(matched)),
            total_returned |-> Num(n),
            filters_applied |-> Obj([location |-> loc, keyword |-> kw])])

\* the listing pages a search can render: per selector of event_selectors,
\* the cards it matches, or NoMatch when the query raises
ListingPages ==
    LET \* the listing pages, URLs and filters the listing search draws from
        CardJazz ==
            Card("Jazz Night Memphis $10", <<NoMatch, Str(" Jazz Night ")>>, <<Str("May 1")>>,
                 <<NoMatch, NoMatch, NoMatch>>, <<Str(""), Str("$10")>>, Str("/e/jazz"))
        CardRock ==
            Card("Rock Show Austin", <<Str("Rock Show")>>, <<NoMatch, NoMatch, NoMatch>>,
                 <<Str("Austin")>>, <<NoMatch, NoMatch>>, Str("https://tix.example/rock"))
        CardBare == Card("", <<NoMatch>>, <<NoMatch>>, <<NoMatch>>, <<NoMatch>>, NoMatch)
        \* no selector finds a card (the second query raises)
        PageEmpty == <<List(<<>>), NoMatch, List(<<>>), List(<<>>), List(<<>>)>>
        \* the first query raises, the third selector is the first to match
        PageCards ==
            <<NoMatch, List(<<>>), List(<<CardJazz, CardRock>>), List(<<>>), List(<<CardBare>>)>>
        \* more cards than one result carries
        PageMany ==
            <<List([i \in 1..(ListingCap + 1) |-> CardBare]), List(<<>>), List(<<>>), List(<<>>),
              List(<<>>)>>
    IN {PageEmpty, PageCards, PageMany}

SearchURLs ==
    {"", "https://example.com/events", "https://www.EventBrite.com/d/memphis/events/?page=2",
     "https://example.com/events?ref=meetup.com",
     "https://www.eventbrite.com/d/online/events/"}

LocationFilters == {Null, Str("memphis")}
KeywordFilters == {Null, Str("opera")}

\* ------------------------------------------------------------------------
\* generate_ics_calendar
\* ------------------------------------------------------------------------
RECURSIVE Replace(_, _, _)
\* s.replace(c, r) for a one-character c
Replace(s, c, r) ==
    IF Len(s) = 0 THEN s
    ELSE (IF SubSeq(s, 1, 1) = c THEN r ELSE SubSeq(s, 1, 1)) \o Replace(Tail(s), c, r)

\* clock.strftime('%Y%m%dT%H%M%SZ')
Stamp(clock) ==
    LET Pad2(n) == IF n < 10 THEN "0" \o NatText(n) ELSE NatText(n)
        Pad4(n) == IF n < 10 THEN "000" \o NatText(n)
                   ELSE IF n < 100 THEN "00" \o NatText(n)
                   ELSE IF n < 1000 THEN "0" \o NatText(n)
                   ELSE NatText(n)
    IN Pad4(clock.year) \o Pad2(clock.month) \o Pad2(clock.day) \o "T"
       \o Pad2(clock.hour) \o Pad2(clock.minute) \o Pad2(clock.second) \o "Z"

\* event_data.get(k, default)
GetOr(d, k, default) == IF k \in DOMAIN d[2] THEN d[2][k] ELSE default

IcsText(title, start, end, location, description, u, clock) ==
    "BEGIN:VCALENDAR\n"
    \o "VERSION:2.0\n"
    \o "PRODID:-//Event Scraper MCP//EN\n"
    \o "CALSCALE:GREGORIAN\n"
    \o "METHOD:PUBLISH\n"
    \o "BEGIN:VEVENT\n"
    \o "UID:" \o ToText(u) \o "\n"
    \o "DTSTAMP:" \o Stamp(clock) \o "\n"
    \o "DTSTART:" \o (IF Truthy(start) THEN ToText(start) ELSE "N/A") \o "\n"
    \o "DTEND:" \o (IF Truthy(end) THEN ToText(end) ELSE "N/A") \o "\n"
    \o "SUMMARY:" \o title \o "\n"
    \o "DESCRIPTION:" \o description \o "\n"
    \o "LOCATION:" \o location \o "\n"
    \o "URL:" \o ToText(u) \o "\n"
    \o "END:VEVENT\n"
    \o "END:VCALENDAR"

\* Null when formatting raises (a text field that is not a string)
generate_ics_calendar(ev, clock) ==
    LET title == PyOr(Get(ev, "title"), Str("Event"))
        location == PyOr(Get(ev, "location"), Str(""))
        description == PyOr(Get(ev, "description"), Str(""))
    IN IF ~IsDict(ev) \/ ~IsStr(title) \/ ~IsStr(location) \/ ~IsStr(description)
       THEN Null
       ELSE Str(IcsText(Replace(title[2], "\n", " "),
                        Get(ev, "start"), Get(ev, "end"),
                        Replace(location[2], "\n", " "),
                        Replace(description[2], "\n", "\\n"),
                        GetOr(ev, "source_url", Str("")),
                        clock))

\* the event records and clock readings the calendar emission draws from
EventInputs ==
    {Null, Obj(EmptyDict),
     Obj([title |-> Str("Gig\nNight"), start |-> Str("2024-05-01T20:00:00Z"),
          end |-> Null, location |-> Str("Hall,\n1 Main St"),
          description |-> Str("Doors 7pm\nShow 8pm"),
          source_url |-> Str("https://example.com/e/1")]),
     Obj([title |-> Num(7), source_url |-> Null]),
     Obj([title |-> Str("Solo"), start |-> Num(20240501), source_url |-> Null])}

Clocks ==
    {[year |-> 2026, month |-> 1, day |-> 5, hour |-> 9, minute |-> 3, second |-> 0],
     [year |-> 2026, month |-> 11, day |-> 25, hour |-> 23, minute |-> 59, second |-> 58]}

\* ------------------------------------------------------------------------
\* State
\* ------------------------------------------------------------------------
VARIABLES
    op,             \* the operation being served, "idle" before the request
    url,            \* its url argument
    location_filter,\* its location_filter argument (listing search), or Null
    keyword_filter, \* its keyword_filter argument (listing search), or Null
    event_data,     \* its event_data argument (calendar), or Null
    now,            \* the clock reading taken by the calendar emission
    pc,             \* position of the request
    static_html,    \* hybrid_fetch: result of fetch_static_html
    static_event,   \* hybrid_fetch: the static tier's record, or Null
    dynamic_event,  \* hybrid_fetch: the dynamic tier's record, or Null
    hret,           \* what hybrid_fetch returned or raised
    bowner,         \* the function that owns the current browser session
    target,         \* the url that function was called with
    browser,        \* the current session's browser: "none", "open", "closed",
                    \* "reaped" (ended by the driver's teardown) or "leaked"
    launched,       \* number of browsers the request has launched
    leaked,         \* number of them left open when their function returned
    pwret,          \* what the function owning the session returns
    s_loc,          \* search_event_listings: its location_filter argument
    s_kw,           \* search_event_listings: its keyword_filter argument
    cards,          \* search_event_listings: the elements of event_locator
    listing,        \* the listing page the current search rendered, once it is read
    strategy,       \* searchEventListingsWithRetry: the strategy under way
    fb_idx,         \* searchEventListingsWithRetry: index into listing_paths
    searches,       \* history: the (url, location, keyword) of each listing search
    attempt_log,    \* the attempt trail of the fallback / retry operation
    trail,          \* history: the collaborator calls made, in order
    result,         \* what the operation returned to its caller
    registry,       \* the module-level list SITE_ADAPTERS, shared by all requests
    reqs            \* concurrent scrape requests: the locals of each coroutine

vars == <<op, url, location_filter, keyword_filter, event_data, now, pc, static_html, static_event,
          dynamic_event, hret, bowner, target, browser, launched, leaked, pwret,
          s_loc, s_kw, cards, listing, strategy, fb_idx, searches, attempt_log, trail, result,
          registry, reqs>>

parVars == <<registry, reqs>>
callVars == <<op, url, location_filter, keyword_filter, event_data, now>>
srVars == <<s_loc, s_kw, cards, listing, strategy, fb_idx, searches>>
hfVars == <<static_html, static_event, dynamic_event, hret>>
pwVars == <<bowner, target, browser, launched, leaked, pwret>>
brVars == <<browser, launched, leaked>>

NoValue == <<"none">>

\* number of scrape requests in flight at once
MaxRequests == 2

\* number of structured-data blocks in a document given to the scan alone
MaxBlocks == 2

Init ==
    /\ op = "idle"
    /\ url = ""
    /\ location_filter = Null
    /\ keyword_filter = Null
    /\ event_data = Null
    /\ now = NoValue
    /\ pc = "idle"
    /\ static_html = Null
    /\ static_event = Null
    /\ dynamic_event = Null
    /\ hret = NoValue
    /\ bowner = "none"
    /\ target = ""
    /\ s_loc = Null
    /\ s_kw = Null
    /\ cards = <<>>
    /\ listing = NoValue
    /\ strategy = "none"
    /\ fb_idx = 0
    /\ searches = <<>>
    /\ browser = "none"
    /\ launched = 0
    /\ leaked = 0
    /\ pwret = NoValue
    /\ attempt_log = <<>>
    /\ trail = <<>>
    /\ result = NoValue
    /\ registry = SITE_ADAPTERS
    /\ reqs = [i \in 1..MaxRequests |->
                [pc |-> "idle", op |-> "idle", url |-> "", adapter |-> NoAdapter,
                 static_html |-> NoValue, static_event |-> Null, dynamic_html |-> NoValue,
                 attempt_log |-> <<>>, ticket_result |-> NoValue,
                 screenshot_result |-> NoValue, result |-> NoValue]]

\* ------------------------------------------------------------------------
\* fetch_static_html
\* ------------------------------------------------------------------------
HttpErrorFloor == 400

\* what client.get(url) can do: raise (<<"error", msg>>) or answer
\* <<"response", status_code, text>>
StaticResponses(u) ==
    IF ~Reachable(u) THEN {<<"error", "connect failed">>}
    ELSE {<<"error", "connect failed">>, <<"response", 500, Str("")>>}
         \cup {<<"response", 404, Html(d)>> : d \in Docs}
         \cup {<<"response", 200, t>> : t \in {Str(""), Str("  ")} \cup {Html(d) : d \in Docs}}

\* Null unless the response is a success with a non-blank body
fetch_static_html(resp) ==
    IF resp[1] = "error" THEN Null
    ELSE IF resp[2] >= HttpErrorFloor THEN Null
    ELSE LET text == resp[3]
         IN IF text[1] = "html" THEN text
            ELSE IF Len(text[2]) > 0 /\ Len(Strip(text[2])) > 0 THEN text ELSE Null

\* ------------------------------------------------------------------------
\* Headless-browser sessions.  Every function that drives a browser has the
\* same skeleton inside one try block:
\*     async with async_playwright() as p:
\*         browser = await p.chromium.launch(...)
\*         page = await browser.new_page(...)
\*         await page.goto(...)
\*         <the function's own work on the page>
\*         await browser.close()
\*         return <value>
\*     except Exception as e: return <error value>
\* ------------------------------------------------------------------------
\* what each function's except clause returns
ErrorReturn(owner, u, msg) ==
    CASE owner = "dynamic" -> Null
      [] owner \in {"screenshot", "pdf", "ticket"} -> Obj([url |-> Str(u), error |-> Str(msg)])
      [] owner = "search" -> Obj([url |-> Str(u), events |-> List(<<>>), error |-> Str(msg)])

\* Leaving the `async with` block stops the Playwright driver.  The code
\* does not close a browser left open there; whether the driver's teardown
\* terminates it is outside the program, so both outcomes are possible.
LeaveBlock ==
    IF browser = "open"
    THEN \/ browser' = "reaped" /\ UNCHANGED leaked
         \/ browser' = "leaked" /\ leaked' = leaked + 1
    ELSE UNCHANGED <<browser, leaked>>

\* an awaited browser call raises: the except clause returns the error value
PwRaise(msg) ==
    /\ pwret' = ErrorReturn(bowner, target, msg)
    /\ LeaveBlock
    /\ pc' = "pw_done"
    /\ UNCHANGED <<bowner, target, launched, trail>>

\* from playwright.async_api import async_playwright; async_playwright()
PwStart ==
    /\ pc = "pw_start"
    /\ \/ /\ pc' = "pw_launch"
          /\ UNCHANGED <<pwVars, trail>>
       \/ PwRaise("playwright unavailable")
    /\ UNCHANGED <<callVars, parVars, srVars, hfVars, attempt_log, result>>

\* browser = await p.chromium.launch(headless=True)
PwLaunch ==
    /\ pc = "pw_launch"
    /\ \/ /\ browser' = "open"
          /\ launched' = launched + 1
          /\ UNCHANGED leaked
          /\ trail' = Append(trail, "launch:" \o bowner)
          /\ pc' = "pw_new_page"
          /\ UNCHANGED <<bowner, target, pwret>>
       \/ PwRaise("browser launch failed")
    /\ UNCHANGED <<callVars, parVars, srVars, hfVars, attempt_log, result>>

\* page = await browser.new_page(user_agent=...)
PwNewPage ==
    /\ pc = "pw_new_page"
    /\ \/ /\ pc' = "pw_goto"
          /\ UNCHANGED <<pwVars, trail>>
       \/ PwRaise("new_page failed")
    /\ UNCHANGED <<callVars, parVars, srVars, hfVars, attempt_log, result>>

\* await page.goto(url, wait_until="networkidle", timeout=30000); sleep.
\* Whether the browser accepts the url is the driver's decision: either
\* outcome is possible for every url.
PwGoto ==
    /\ pc = "pw_goto"
    /\ \/ /\ pc' = "pw_work"
          /\ UNCHANGED <<pwVars, trail>>
       \/ PwRaise("Timeout 30000ms exceeded")
    /\ UNCHANGED <<callVars, parVars, srVars, hfVars, attempt_log, result>>

\* await browser.close(), then the return statement
PwClose ==
    /\ pc = "pw_close"
    /\ \/ /\ browser' = "closed"
          /\ pc' = "pw_done"
          /\ UNCHANGED <<bowner, target, launched, leaked, pwret, trail>>
       \/ PwRaise("close failed")
    /\ UNCHANGED <<callVars, parVars, srVars, hfVars, attempt_log, result>>

\* fetch_dynamic_html_with_playwright: html = await page.content()
DynContent ==
    /\ pc = "pw_work"
    /\ bowner = "dynamic"
    /\ \/ \E d \in Docs :
            /\ pwret' = Html(d)
            /\ pc' = "pw_close"
            /\ UNCHANGED <<bowner, target, brVars, trail>>
       \/ PwRaise("page.content failed")
    /\ UNCHANGED <<callVars, parVars, srVars, hfVars, attempt_log, result>>

\* ------------------------------------------------------------------------
\* hybrid_fetch
\* ------------------------------------------------------------------------
HybridOps == {"scrapeEventPage", "scrapeEventPageWithFallbacks"}

\* the static fetch repeated once after it failed
HF_FetchStatic_Retrying ==
    /\ pc = "hf_fetch_static"
    /\ \E resp \in StaticResponses(url) : static_html' = fetch_static_html(resp)
    /\ trail' = Append(trail, "static_fetch")
    /\ pc' = IF IsNull(static_html') /\ trail = <<>> THEN "hf_fetch_static" ELSE "hf_static_tier"
    /\ UNCHANGED <<callVars, parVars, srVars, static_event, dynamic_event, hret, pwVars, attempt_log, result>>

\* line 486: static_html = fetch_static_html(url)
HF_FetchStatic ==
    /\ pc = "hf_fetch_static"
    /\ \E resp \in StaticResponses(url) : static_html' = fetch_static_html(resp)
    /\ trail' = Append(trail, "static_fetch")
    /\ pc' = "hf_static_tier"
    /\ UNCHANGED <<callVars, parVars, srVars, static_event, dynamic_event, hret, pwVars, attempt_log, result>>

\* the static tier with the dynamic fallback left out: a non-rich static
\* record goes straight to the failure result
StaticTierStep_NoFallback(ev) ==
    /\ static_event' = (IF IsRaise(ev) THEN static_event ELSE ev)
    /\ hret' = (IF IsRaise(ev) THEN ev
               ELSE IF Truthy(ev) /\ is_event_rich(ev) THEN TierSuccess(ev, "static")
               ELSE TotalFailure(ev, Null, url))
    /\ pc' = "hf_return"
    /\ UNCHANGED <<bowner, target, pwret, trail>>

\* the static tier with the richness gate left out: the browser is always
\* started
StaticTierStep_AlwaysRender(ev) ==
    IF IsRaise(ev)
    THEN /\ hret' = ev
         /\ pc' = "hf_return"
         /\ UNCHANGED <<static_event, bowner, target, pwret, trail>>
    ELSE /\ static_event' = ev
         /\ bowner' = "dynamic"
         /\ target' = url
         /\ pwret' = NoValue
         /\ trail' = Append(trail, "call:dynamic")
         /\ pc' = "pw_start"
         /\ UNCHANGED hret

\* lines 489-515: extract from the static document; return it when rich,
\* otherwise call fetch_dynamic_html_with_playwright
StaticTierStep(ev) ==
    IF IsRaise(ev)
    THEN /\ hret' = ev
         /\ pc' = "hf_return"
         /\ UNCHANGED <<static_event, bowner, target, pwret, trail>>
    ELSE IF Truthy(ev) /\ is_event_rich(ev)
    THEN /\ static_event' = ev
         /\ hret' = TierSuccess(ev, "static")
         /\ pc' = "hf_return"
         /\ UNCHANGED <<bowner, target, pwret, trail>>
    ELSE /\ static_event' = ev
         /\ bowner' = "dynamic"
         /\ target' = url
         /\ pwret' = NoValue
         /\ trail' = Append(trail, "call:dynamic")
         /\ pc' = "pw_start"
         /\ UNCHANGED hret

HF_StaticTier ==
    /\ pc = "hf_static_tier"
    /\ StaticTierStep(TierEvent(get_site_adapter(url), static_html, url))
    /\ UNCHANGED <<callVars, parVars, srVars, static_html, dynamic_event, brVars, attempt_log, result>>

\* lines 516-549: extract from the rendered document; return it when rich,
\* otherwise the best-effort failure result
DynamicTierStep(ev) ==
    IF IsRaise(ev)
    THEN /\ hret' = ev
         /\ UNCHANGED dynamic_event
    ELSE /\ dynamic_event' = ev
         /\ hret' = IF Truthy(ev) /\ is_event_rich(ev)
                    THEN TierSuccess(ev, "playwright")
                    ELSE TotalFailure(static_event, ev, url)

HF_DynamicTier ==
    /\ pc = "pw_done"
    /\ bowner = "dynamic"
    /\ op \in HybridOps
    /\ DynamicTierStep(TierEvent(get_site_adapter(url), pwret, url))
    /\ pc' = "hf_return"
    /\ UNCHANGED <<callVars, parVars, srVars, static_html, static_event, pwVars, attempt_log, trail, result>>

\* ------------------------------------------------------------------------
\* The tools
\* ------------------------------------------------------------------------
ErrorResult(u, msg) ==
    Obj([event |-> ensure_event_shape(Null, u),
         scrape_method |-> Str("error"),
         error |-> Str(msg)])

\* scrapeEventPage without its except clause
scrapeEventPageResult_Unguarded(h, u) == h

\* scrapeEventPage: try: return await hybrid_fetch(url) / except Exception
scrapeEventPageResult(h, u) == IF IsRaise(h) THEN ErrorResult(u, h[2]) ELSE h

Call_scrapeEventPage ==
    /\ pc = "idle"
    /\ UNCHANGED <<location_filter, keyword_filter, event_data, now, parVars, srVars>>
    /\ \E u \in URLs : url' = u
    /\ op' = "scrapeEventPage"
    /\ pc' = "hf_fetch_static"
    /\ UNCHANGED <<hfVars, pwVars, attempt_log, trail, result>>

SEP_Return ==
    /\ pc = "hf_return"
    /\ op = "scrapeEventPage"
    /\ result' = scrapeEventPageResult(hret, url)
    /\ pc' = "done"
    /\ UNCHANGED <<callVars, parVars, srVars, hfVars, pwVars, attempt_log, trail>>

\* ------------------------------------------------------------------------
\* check_ticket_availability and capture_event_screenshot / generate_event_pdf
\* ------------------------------------------------------------------------
\* what the page script can report
TicketInfos ==
    LET TicketInfo(register, buy, sold_out, price_text, inputs) ==
            Obj([has_register_button |-> Bool(register),
                 has_buy_button |-> Bool(buy),
                 has_sold_out |-> Bool(sold_out),
                 price_text |-> Str(price_text),
                 form_inputs |-> Num(inputs)])
    IN {TicketInfo(FALSE, TRUE, FALSE, "$25.00", 0),
        TicketInfo(FALSE, FALSE, TRUE, "N/A", 1)}

\* the return statement of check_ticket_availability
TicketReturn(u, ticket_info) ==
    Obj([url |-> Str(u),
         ticket_info |-> ticket_info,
         status |-> Str(IF Get(ticket_info, "has_sold_out")[2] THEN "sold_out" ELSE "available")])

\* ticket_info = await page.evaluate(...)
TicketEvaluate ==
    /\ pc = "pw_work"
    /\ bowner = "ticket"
    /\ \/ \E info \in TicketInfos :
            /\ pwret' = TicketReturn(target, info)
            /\ pc' = "pw_close"
            /\ UNCHANGED <<bowner, target, brVars, trail>>
       \/ PwRaise("page.evaluate failed")
    /\ UNCHANGED <<callVars, parVars, srVars, hfVars, attempt_log, result>>

\* screenshot_bytes = await page.screenshot(type="png")
ShotCapture ==
    /\ pc = "pw_work"
    /\ bowner = "screenshot"
    /\ \/ /\ pwret' = Obj([url |-> Str(target), screenshot_base64 |-> Str("aVZCT1J3MEtHZ28="),
                           format |-> Str("png")])
          /\ pc' = "pw_close"
          /\ UNCHANGED <<bowner, target, brVars, trail>>
       \/ PwRaise("page.screenshot failed")
    /\ UNCHANGED <<callVars, parVars, srVars, hfVars, attempt_log, result>>

\* pdf_bytes = await page.pdf(format="A4")
PdfRender ==
    /\ pc = "pw_work"
    /\ bowner = "pdf"
    /\ \/ /\ pwret' = Obj([url |-> Str(target), pdf_base64 |-> Str("aVZCT1J3MEtHZ28="),
                           format |-> Str("pdf")])
          /\ pc' = "pw_close"
          /\ UNCHANGED <<bowner, target, brVars, trail>>
       \/ PwRaise("page.pdf failed")
    /\ UNCHANGED <<callVars, parVars, srVars, hfVars, attempt_log, result>>

\* ------------------------------------------------------------------------
\* scrapeEventPageWithFallbacks
\* ------------------------------------------------------------------------
AttemptMsgCap == 50

Call_scrapeEventPageWithFallbacks ==
    /\ pc = "idle"
    /\ UNCHANGED <<location_filter, keyword_filter, event_data, now, parVars, srVars>>
    /\ \E u \in URLs : url' = u
    /\ op' = "scrapeEventPageWithFallbacks"
    /\ attempt_log' = <<>>
    /\ pc' = "hf_fetch_static"
    /\ UNCHANGED <<hfVars, pwVars, trail, result>>

\* the condition of line 934 without its richness test
HybridSucceeded_AnyEvent(h) ==
    /\ ~IsRaise(h)
    /\ Truthy(h)
    /\ Truthy(Get(h, "event"))

\* the condition of line 934
HybridSucceeded(h) ==
    /\ ~IsRaise(h)
    /\ Truthy(h)
    /\ Truthy(Get(h, "event"))
    /\ is_event_rich(Get(h, "event"))

\* Strategy 1, lines 930-940, then the call of strategy 2 (line 945)
SWF_AfterHybrid ==
    /\ pc = "hf_return"
    /\ op = "scrapeEventPageWithFallbacks"
    /\ IF HybridSucceeded(hret)
       THEN /\ result' = Put(hret, "attempts",
                             List(attempt_log \o <<Str("hybrid_fetch (SUCCESS)")>>))
            /\ pc' = "done"
            /\ UNCHANGED <<attempt_log, pwVars, trail>>
       ELSE /\ attempt_log' = Append(attempt_log,
                IF IsRaise(hret)
                THEN Str("hybrid_fetch (failed: " \o Take(hret[2], AttemptMsgCap) \o ")")
                ELSE Str("hybrid_fetch (returned incomplete data)"))
            /\ bowner' = "ticket"
            /\ target' = url
            /\ pwret' = NoValue
            /\ trail' = Append(trail, "call:ticket")
            /\ pc' = "pw_start"
            /\ UNCHANGED <<brVars, result>>
    /\ UNCHANGED <<callVars, parVars, srVars, hfVars>>

\* lines 948-954: the fresh record with the probe's fields folded in
TicketEvent(ticket_result, u) ==
    LET e0 == ensure_event_shape(Null, u)
        e1 == IF Truthy(Get(ticket_result, "has_tickets"))
              THEN Put(e0, "status", Str("has_tickets")) ELSE e0
        e2 == IF Truthy(Get(ticket_result, "pricing"))
              THEN Put(e1, "price", Get(ticket_result, "pricing")) ELSE e1
    IN IF Truthy(Get(ticket_result, "ticket_info"))
       THEN Put(e2, "description", Get(ticket_result, "ticket_info")) ELSE e2

\* the condition of line 946
TicketAccepted(ticket_result) ==
    /\ ~IsRaise(ticket_result)
    /\ Truthy(ticket_result)
    /\ Truthy(Get(ticket_result, "url"))

\* Strategy 2, lines 946-963, then the call of strategy 3 (line 968)
SWF_AfterTicket ==
    /\ pc = "pw_done"
    /\ bowner = "ticket"
    /\ op = "scrapeEventPageWithFallbacks"
    /\ IF TicketAccepted(pwret)
       THEN /\ attempt_log' = Append(attempt_log,
                                     Str("checkTicketAvailability (extracted partial data)"))
            /\ result' = Obj([event |-> TicketEvent(pwret, url),
                              scrape_method |-> Str("fallback_ticket_check"),
                              attempts |-> List(attempt_log')])
            /\ pc' = "done"
            /\ UNCHANGED <<pwVars, trail>>
       ELSE /\ attempt_log' =
                IF IsRaise(pwret)
                THEN Append(attempt_log,
                        Str("checkTicketAvailability (failed: " \o Take(pwret[2], AttemptMsgCap) \o ")"))
                ELSE attempt_log
            /\ bowner' = "screenshot"
            /\ target' = url
            /\ pwret' = NoValue
            /\ trail' = Append(trail, "call:screenshot")
            /\ pc' = "pw_start"
            /\ UNCHANGED <<brVars, result>>
    /\ UNCHANGED <<callVars, parVars, srVars, hfVars>>

\* the condition of line 969
ScreenshotAccepted(screenshot_result) ==
    /\ ~IsRaise(screenshot_result)
    /\ Truthy(screenshot_result)
    /\ ~Truthy(Get(screenshot_result, "error"))

\* the tool that returns only once a capture has succeeded
SWF_AfterScreenshot_AwaitsSuccess ==
    /\ pc = "pw_done"
    /\ bowner = "screenshot"
    /\ op = "scrapeEventPageWithFallbacks"
    /\ ScreenshotAccepted(pwret)
    /\ attempt_log' = Append(attempt_log,
                             Str("captureEventScreenshot (visual capture succeeded)"))
    /\ result' = Obj([event |-> ensure_event_shape(Null, url),
                      scrape_method |-> Str("fallback_screenshot"),
                      screenshot_data |-> pwret,
                      note |-> Str("Unable to extract text data, but screenshot captured for manual review"),
                      attempts |-> List(attempt_log')])
    /\ pc' = "done"
    /\ UNCHANGED <<callVars, parVars, srVars, hfVars, pwVars, trail>>

\* Strategy 3, lines 969-982, and the exhausted case, lines 984-992
SWF_AfterScreenshot ==
    /\ pc = "pw_done"
    /\ bowner = "screenshot"
    /\ op = "scrapeEventPageWithFallbacks"
    /\ IF ScreenshotAccepted(pwret)
       THEN /\ attempt_log' = Append(attempt_log,
                                     Str("captureEventScreenshot (visual capture succeeded)"))
            /\ result' = Obj([event |-> ensure_event_shape(Null, url),
                              scrape_method |-> Str("fallback_screenshot"),
                              screenshot_data |-> pwret,
                              note |-> Str("Unable to extract text data, but screenshot captured for manual review"),
                              attempts |-> List(attempt_log')])
       ELSE /\ attempt_log' =
                (IF IsRaise(pwret)
                 THEN Append(attempt_log,
                        Str("captureEventScreenshot (failed: " \o Take(pwret[2], AttemptMsgCap) \o ")"))
                 ELSE attempt_log) \o <<Str("all_strategies_exhausted")>>
            /\ result' = Obj([event |-> ensure_event_shape(Null, url),
                              scrape_method |-> Str("all_fallbacks_failed"),
                              error |-> Str("Could not extract event data using any available strategy"),
                              attempts |-> List(attempt_log')])
    /\ pc' = "done"
    /\ UNCHANGED <<callVars, parVars, srVars, hfVars, pwVars, trail>>

\* ------------------------------------------------------------------------
\* captureEventScreenshot, generateEventPDF, checkTicketAvailability
\* ------------------------------------------------------------------------
SessionTools == {"captureEventScreenshot", "generateEventPDF", "checkTicketAvailability"}

SessionOwner(o) ==
    CASE o = "captureEventScreenshot" -> "screenshot"
      [] o = "generateEventPDF" -> "pdf"
      [] o = "checkTicketAvailability" -> "ticket"

Call_SessionTool ==
    /\ pc = "idle"
    /\ UNCHANGED <<location_filter, keyword_filter, event_data, now, parVars, srVars>>
    /\ \E u \in URLs : url' = u
    /\ \E o \in SessionTools :
          /\ op' = o
          /\ bowner' = SessionOwner(o)
          /\ target' = url'
          /\ trail' = Append(trail, "call:" \o SessionOwner(o))
    /\ pc' = "pw_start"
    /\ UNCHANGED <<hfVars, brVars, pwret, attempt_log, result>>

\* the tool wrappers: try: result = await f(url) / except Exception
SessionToolResult(o, r, u) ==
    IF IsRaise(r) THEN Obj([url |-> Str(u), error |-> Str(r[2])])
    ELSE IF o = "captureEventScreenshot"
    THEN PyOr(r, Obj([url |-> Str(u), error |-> Str("Screenshot capture failed")]))
    ELSE IF o = "generateEventPDF"
    THEN PyOr(r, Obj([url |-> Str(u), error |-> Str("PDF generation failed")]))
    ELSE r

SessionTool_Return ==
    /\ pc = "pw_done"
    /\ op \in SessionTools
    /\ result' = SessionToolResult(op, pwret, url)
    /\ pc' = "done"
    /\ UNCHANGED <<callVars, parVars, srVars, hfVars, pwVars, attempt_log, trail>>

\* ------------------------------------------------------------------------
\* extractEventMedia
\* ------------------------------------------------------------------------
\* lines 1029-1031, html being the fetched document or Null
MediaResult(html, u) ==
    IF ~Truthy(html) THEN Obj([url |-> Str(u), error |-> Str("Could not fetch page content")])
    ELSE extract_event_media(html[2], u)

Call_extractEventMedia ==
    /\ pc = "idle"
    /\ UNCHANGED <<location_filter, keyword_filter, event_data, now, parVars, srVars>>
    /\ \E u \in URLs : url' = u
    /\ op' = "extractEventMedia"
    /\ pc' = "media_fetch_static"
    /\ UNCHANGED <<hfVars, pwVars, attempt_log, trail, result>>

\* html = fetch_static_html(url) or await fetch_dynamic_html_with_playwright(url)
Media_FetchStatic ==
    /\ pc = "media_fetch_static"
    /\ \E resp \in StaticResponses(url) :
          /\ static_html' = fetch_static_html(resp)
          /\ IF Truthy(static_html')
             THEN /\ result' = MediaResult(static_html', url)
                  /\ trail' = Append(trail, "static_fetch")
                  /\ pc' = "done"
                  /\ UNCHANGED pwVars
             ELSE /\ bowner' = "dynamic"
                  /\ target' = url
                  /\ pwret' = NoValue
                  /\ trail' = trail \o <<"static_fetch", "call:dynamic">>
                  /\ pc' = "pw_start"
                  /\ UNCHANGED <<brVars, result>>
    /\ UNCHANGED <<callVars, parVars, srVars, static_event, dynamic_event, hret, attempt_log>>

Media_AfterDynamic ==
    /\ pc = "pw_done"
    /\ bowner = "dynamic"
    /\ op = "extractEventMedia"
    /\ result' = MediaResult(pwret, url)
    /\ pc' = "done"
    /\ UNCHANGED <<callVars, parVars, srVars, hfVars, pwVars, attempt_log, trail>>

\* ------------------------------------------------------------------------
\* search_event_listings (its browser session is the Pw* steps)
\* ------------------------------------------------------------------------
\* a caller awaits search_event_listings(u, loc, kw)
StartSearch(u, loc, kw) ==
    /\ bowner' = "search"
    /\ target' = u
    /\ s_loc' = loc
    /\ s_kw' = kw
    /\ cards' = <<>>
    /\ listing' = NoValue
    /\ pwret' = NoValue
    /\ searches' = Append(searches, <<u, loc, kw>>)
    /\ trail' = Append(trail, "call:search")
    /\ pc' = "pw_start"
    /\ UNCHANGED brVars

\* lines 721-746: the selector loop; returns at once when nothing matches
SearchDetect ==
    /\ pc = "pw_work"
    /\ bowner = "search"
    /\ \E page \in ListingPages :
          /\ listing' = page
          /\ IF DetectSelector(page) = 0
             THEN /\ pwret' = NoCardsReturn(target)
                  /\ LeaveBlock
                  /\ pc' = "pw_done"
                  /\ UNCHANGED <<cards, launched>>
             ELSE /\ cards' = page[DetectSelector(page)][2]
                  /\ pc' = "search_extract"
                  /\ UNCHANGED <<pwret, brVars>>
    /\ UNCHANGED <<callVars, parVars, hfVars, bowner, target, s_loc, s_kw, strategy, fb_idx, searches,
                   attempt_log, trail, result>>

\* lines 748-819: the filters, the count and the per-card extraction
SearchExtract ==
    /\ pc = "search_extract"
    /\ \/ /\ pwret' = SearchReturn(target, ApplyFilters(cards, s_loc, s_kw), s_loc, s_kw)
          /\ pc' = "pw_close"
          /\ UNCHANGED <<bowner, target, brVars, trail>>
       \/ PwRaise("locator.count failed")
    /\ UNCHANGED <<callVars, parVars, srVars, hfVars, attempt_log, result>>

\* ------------------------------------------------------------------------
\* searchEventListings
\* ------------------------------------------------------------------------
Call_searchEventListings ==
    /\ pc = "idle"
    /\ UNCHANGED <<event_data, now, parVars>>
    /\ op' = "searchEventListings"
    /\ \E u \in SearchURLs, loc \in LocationFilters, kw \in KeywordFilters :
          /\ url' = u
          /\ location_filter' = loc
          /\ keyword_filter' = kw
          /\ StartSearch(u, loc, kw)
    /\ UNCHANGED <<hfVars, strategy, fb_idx, attempt_log, result>>

\* try: return await search_event_listings(...) / except Exception
searchEventListingsResult(r, u) ==
    IF IsRaise(r) THEN Obj([url |-> Str(u), events |-> List(<<>>), error |-> Str(r[2])])
    ELSE r

SEL_Return ==
    /\ pc = "pw_done"
    /\ bowner = "search"
    /\ op = "searchEventListings"
    /\ result' = searchEventListingsResult(pwret, url)
    /\ pc' = "done"
    /\ UNCHANGED <<callVars, parVars, srVars, hfVars, pwVars, attempt_log, trail>>

\* ------------------------------------------------------------------------
\* searchEventListingsWithRetry
\* ------------------------------------------------------------------------
RetryMsgCap == 60

listing_paths == <<"/d/online/events/", "/d/united-states/events/", "/search/", "/events/">>

\* the condition of line 1136
IsKnownPlatform(u) ==
    \E platform \in {"eventbrite.com", "ticketmaster.com", "meetup.com"} :
        Contains(Lower(u), platform)

\* `if events:` taken for every search that returned, even with no events
FoundEvents_AnyReturn(r) == ~IsRaise(r)

\* `if "events" in result:` as the test
FoundEvents_KeyPresent(r) == ~IsRaise(r) /\ "events" \in DOMAIN r[2]

\* `if events:` for events = result.get("events", []); a raising search
\* never reaches the test
FoundEvents(r) == ~IsRaise(r) /\ Truthy(GetOr(r, "events", List(<<>>)))

\* the exhausted result without its advice to the caller
AllFailed_NoSuggestions(u, attempts) ==
    Obj([url |-> Str(u),
         events |-> List(<<>>),
         retry_attempts |-> List(Append(attempts, Str("all_retry_strategies_exhausted"))),
         strategy |-> Str("all_failed"),
         error |-> Str("Could not find event listings using any retry strategy"),
         suggestions |-> List(<<>>)])

\* lines 1172-1187
AllFailed(u, attempts) ==
    Obj([url |-> Str(u),
         events |-> List(<<>>),
         retry_attempts |-> List(Append(attempts, Str("all_retry_strategies_exhausted"))),
         strategy |-> Str("all_failed"),
         error |-> Str("Could not find event listings using any retry strategy"),
         suggestions |-> List(<<
            Str("Verify the URL is a valid event listing page (not homepage)"),
            Str("Try a URL like: eventbrite.com/d/your-location/events/"),
            Str("Check that the event platform is supported (Eventbrite, Ticketmaster, Meetup, etc.)")>>)])

Call_searchEventListingsWithRetry ==
    /\ pc = "idle"
    /\ UNCHANGED <<event_data, now, parVars>>
    /\ op' = "searchEventListingsWithRetry"
    /\ attempt_log' = <<>>
    /\ strategy' = "primary"
    /\ \E u \in SearchURLs, loc \in LocationFilters, kw \in KeywordFilters :
          /\ url' = u
          /\ location_filter' = loc
          /\ keyword_filter' = kw
          /\ StartSearch(u, loc, kw)
    /\ UNCHANGED <<hfVars, fb_idx, result>>

\* Strategy 3 (line 1136) when the platform is known, else the exhausted
\* result; attempts is the trail so far
FallbackOrFinish(attempts) ==
    IF IsKnownPlatform(url)
    THEN /\ attempt_log' = attempts
         /\ strategy' = "fallback"
         /\ fb_idx' = 1
         /\ StartSearch(UrlOrigin(url) \o listing_paths[1], Null, Null)
         /\ UNCHANGED result
    ELSE /\ attempt_log' = Append(attempts, Str("all_retry_strategies_exhausted"))
         /\ result' = AllFailed(url, attempts)
         /\ pc' = "done"
         /\ UNCHANGED <<pwVars, s_loc, s_kw, cards, listing, strategy, fb_idx, searches, trail>>

\* the trail entry of an unsuccessful primary search, lines 1108-1113
PrimaryEntry(r, loc, kw) ==
    IF IsRaise(r) THEN Str("Primary search failed: " \o Take(r[2], RetryMsgCap))
    ELSE IF Truthy(loc) \/ Truthy(kw)
    THEN Str("Primary search with filters (no results, retrying without filters)")
    ELSE Str("Primary search failed: " \o ToText(PyOr(Get(r, "error"), Str("no events found"))))

\* Strategy 1, lines 1094-1114, then the next strategy's first call
SR_AfterPrimary ==
    /\ pc = "pw_done"
    /\ bowner = "search"
    /\ op = "searchEventListingsWithRetry"
    /\ strategy = "primary"
    /\ IF FoundEvents(pwret)
       THEN /\ attempt_log' = <<Str("Primary search with filters (SUCCESS)")>>
            /\ result' = Put(Put(pwret, "retry_attempts", List(attempt_log')),
                             "strategy", Str("primary"))
            /\ pc' = "done"
            /\ UNCHANGED <<pwVars, srVars, trail>>
       ELSE IF Truthy(location_filter) \/ Truthy(keyword_filter)
       THEN /\ attempt_log' = Append(attempt_log,
                                     PrimaryEntry(pwret, location_filter, keyword_filter))
            /\ strategy' = "retry"
            /\ StartSearch(url, Null, Null)
            /\ UNCHANGED <<fb_idx, result>>
       ELSE FallbackOrFinish(Append(attempt_log,
                                    PrimaryEntry(pwret, location_filter, keyword_filter)))
    /\ UNCHANGED <<callVars, parVars, hfVars>>

RetryNote(loc, kw) ==
    "Could not apply filters (" \o ToText(loc) \o ", " \o ToText(kw) \o "). Showing all events."

\* the trail entry of an unsuccessful unfiltered retry, lines 1130-1132
RetryEntry(r) ==
    IF IsRaise(r) THEN Str("Retry without filters failed: " \o Take(r[2], RetryMsgCap))
    ELSE Str("Retry without filters (returned "
             \o NatText(Len(GetOr(r, "events", List(<<>>))[2])) \o " events)")

\* Strategy 2, lines 1117-1133, then strategy 3 or the exhausted result
SR_AfterRetry ==
    /\ pc = "pw_done"
    /\ bowner = "search"
    /\ op = "searchEventListingsWithRetry"
    /\ strategy = "retry"
    /\ IF FoundEvents(pwret)
       THEN /\ attempt_log' = Append(attempt_log, Str("Retry without filters (SUCCESS)"))
            /\ result' = Put(Put(Put(pwret, "retry_attempts", List(attempt_log')),
                                 "strategy", Str("retry_no_filters")),
                             "note", Str(RetryNote(location_filter, keyword_filter)))
            /\ pc' = "done"
            /\ UNCHANGED <<pwVars, srVars, trail>>
       ELSE FallbackOrFinish(Append(attempt_log, RetryEntry(pwret)))
    /\ UNCHANGED <<callVars, parVars, hfVars>>

\* Strategy 3, lines 1151-1170: one fallback URL searched, then the next
\* path, or the exhausted result after the last
SR_AfterFallback ==
    /\ pc = "pw_done"
    /\ bowner = "search"
    /\ op = "searchEventListingsWithRetry"
    /\ strategy = "fallback"
    /\ IF FoundEvents(pwret)
       THEN /\ attempt_log' = Append(attempt_log, Str("Fallback URL succeeded: " \o target))
            /\ result' = Put(Put(Put(Put(pwret, "retry_attempts", List(attempt_log')),
                                     "strategy", Str("fallback_url")),
                                 "original_url", Str(url)),
                             "fallback_url", Str(target))
            /\ pc' = "done"
            /\ UNCHANGED <<pwVars, srVars, trail>>
       ELSE IF fb_idx < Len(listing_paths)
       THEN /\ fb_idx' = fb_idx + 1
            /\ StartSearch(UrlOrigin(url) \o listing_paths[fb_idx + 1], Null, Null)
            /\ UNCHANGED <<strategy, attempt_log, result>>
       ELSE /\ attempt_log' = attempt_log \o <<Str("All fallback URLs returned no events"),
                                               Str("all_retry_strategies_exhausted")>>
            /\ result' = AllFailed(url, Append(attempt_log,
                                               Str("All fallback URLs returned no events")))
            /\ pc' = "done"
            /\ UNCHANGED <<pwVars, srVars, trail>>
    /\ UNCHANGED <<callVars, parVars, hfVars>>

\* ------------------------------------------------------------------------
\* generateEventCalendar
\* ------------------------------------------------------------------------
\* the tool's body, ics being what generate_ics_calendar returned
generateEventCalendarResult(ics) ==
    IF IsRaise(ics) THEN Obj([error |-> Str(ics[2])])
    ELSE IF Truthy(ics)
    THEN Obj([ics_content |-> ics, format |-> Str("ics"), success |-> Bool(TRUE)])
    ELSE Obj([error |-> Str("Failed to generate ICS content")])

Call_generateEventCalendar ==
    /\ pc = "idle"
    /\ op' = "generateEventCalendar"
    /\ \E ev \in EventInputs, clock \in Clocks :
          /\ event_data' = ev
          /\ now' = <<"clock", clock>>
          /\ result' = generateEventCalendarResult(generate_ics_calendar(ev, clock))
    /\ pc' = "done"
    /\ UNCHANGED <<url, location_filter, keyword_filter, parVars, srVars, hfVars, pwVars,
                   attempt_log, trail>>

Next ==
    \/ Call_scrapeEventPage
    \/ Call_scrapeEventPageWithFallbacks
    \/ Call_SessionTool
    \/ Call_extractEventMedia
    \/ Media_FetchStatic
    \/ Media_AfterDynamic
    \/ Call_generateEventCalendar
    \/ Call_searchEventListings
    \/ Call_searchEventListingsWithRetry
    \/ SearchDetect
    \/ SearchExtract
    \/ SEL_Return
    \/ SR_AfterPrimary
    \/ SR_AfterRetry
    \/ SR_AfterFallback
    \/ HF_FetchStatic
    \/ HF_StaticTier
    \/ PwStart
    \/ PwLaunch
    \/ PwNewPage
    \/ PwGoto
    \/ DynContent
    \/ TicketEvaluate
    \/ ShotCapture
    \/ PdfRender
    \/ PwClose
    \/ HF_DynamicTier
    \/ SEP_Return
    \/ SWF_AfterHybrid
    \/ SWF_AfterTicket
    \/ SWF_AfterScreenshot
    \/ SessionTool_Return

Spec == Init /\ [][Next]_vars

\* the call is inside code that runs to its end without the event loop's
\* help once its collaborators answer: the extraction of a tier of
\* hybrid_fetch (lines 489-549), the filters and the per-card loop of
\* search_event_listings (lines 748-819), and what
\* searchEventListingsWithRetry does between two searches (lines 1098-1170)
Extracting ==
    \/ pc \in {"hf_static_tier", "search_extract"}
    \/ pc = "pw_done" /\ bowner = "dynamic" /\ op \in HybridOps
    \/ pc = "pw_done" /\ bowner = "search" /\ op = "searchEventListingsWithRetry"

\* the event loop resumes a suspended call whenever the collaborator it
\* awaits has completed, and every collaborator call completes: a step of
\* Next that can be taken is eventually taken.  Synchronous code runs to its
\* end once entered, which moves pc
SpecLive ==
    /\ Spec
    /\ WF_vars(~Extracting /\ Next)
    /\ WF_pc(Extracting /\ pc' \in {"pw_start", "pw_close", "pw_done", "hf_return", "done"}
                        /\ pc' # pc)

\* ------------------------------------------------------------------------
\* is_event_rich applied on its own to a record drawn from RichInputs
\* ------------------------------------------------------------------------
\* every record over subsets of the three signal fields, each holding a
\* text, the empty text, None or an empty list; and inputs that are not
\* records
RichInputs ==
    {Obj(f) : f \in UNION {[ks -> {Str("X"), Str(""), Null, List(<<>>)}] :
                             ks \in SUBSET {"title", "start", "location"}}}
    \cup {Null, Str("X"), Str(""), List(<<>>), List(<<Str("X")>>), Bool(TRUE)}

Call_is_event_rich ==
    /\ pc = "idle"
    /\ op' = "is_event_rich"
    /\ \E ev \in RichInputs :
          /\ event_data' = ev
          /\ result' = Bool(is_event_rich(ev))
    /\ pc' = "done"
    /\ UNCHANGED <<url, location_filter, keyword_filter, now, parVars, srVars, hfVars, pwVars,
                   attempt_log, trail>>

SpecRich == Init /\ [][Call_is_event_rich]_vars

\* ------------------------------------------------------------------------
\* ensure_event_shape and the backfill loop applied on their own
\* ------------------------------------------------------------------------
\* ensure_event_shape(ev, u) for None, the empty record and every record
\* over subsets of source_url, title, images and a debug key; source_url,
\* when present, is None, u or another url
Call_ensure_event_shape ==
    /\ pc = "idle"
    /\ op' = "ensure_event_shape"
    /\ \E u \in {"https://example.com/e/1", "https://www.eventbrite.com/e/456"} :
       \E ev \in {Null} \cup
                  {Obj(f) : f \in UNION {
                      {g \in [ks -> {Null, Str(u), Str("https://other.example/x"),
                                     Str("T"), List(<<>>), List(<<Str("a.png")>>), Num(1)}] :
                          /\ "source_url" \in ks =>
                                g["source_url"] \in {Null, Str(u), Str("https://other.example/x")}
                          /\ "title" \in ks => g["title"] \in {Null, Str("T")}
                          /\ "images" \in ks =>
                                g["images"] \in {Null, List(<<>>), List(<<Str("a.png")>>)}
                          /\ "debug" \in ks => g["debug"] = Num(1)} :
                      ks \in SUBSET {"source_url", "title", "images", "debug"}}} :
          /\ url' = u
          /\ event_data' = ev
          /\ result' = ensure_event_shape(ev, u)
    /\ pc' = "done"
    /\ UNCHANGED <<location_filter, keyword_filter, now, parVars, srVars, hfVars, pwVars,
                   attempt_log, trail>>

\* the backfill loop of parse_event_html and hybrid_fetch applied to a
\* primary record a and a secondary record b, given as the pair [a, b]; a
\* field is missing or holds None, "", [], a text, 0, False or a list
Call_MergeFields ==
    /\ pc = "idle"
    /\ op' = "MergeFields"
    /\ \E a \in {Obj(f) : f \in UNION {
                     {g \in [ks -> {Null, Str(""), Str("A"), Num(0), Bool(FALSE),
                                    List(<<>>), List(<<Str("a.png")>>)}] :
                         "images" \in ks => g["images"] \in {List(<<>>), List(<<Str("a.png")>>)}} :
                     ks \in SUBSET {"title", "images"}}},
          b \in {Obj(f) : f \in UNION {
                     {g \in [ks -> {Null, Str(""), Str("B"), Num(0),
                                    List(<<>>), List(<<Str("b.png")>>)}] :
                         "images" \in ks => g["images"] \in {List(<<>>), List(<<Str("b.png")>>)}} :
                     ks \in SUBSET {"title", "images"}}} :
          /\ event_data' = List(<<a, b>>)
          /\ result' = MergeFields(a, b)
    /\ pc' = "done"
    /\ UNCHANGED <<url, location_filter, keyword_filter, now, parVars, srVars, hfVars, pwVars,
                   attempt_log, trail>>

\* get_site_adapter(u) for event pages of the five platforms, pages of
\* theirs that are not event pages, urls of other sites, a url that two
\* adapters match, and urls of other sites and of non-event pages that
\* carry a platform name or "events" in their path
Call_get_site_adapter ==
    /\ pc = "idle"
    /\ op' = "get_site_adapter"
    /\ \E u \in {"https://www.ticketmaster.com/event/123",
                  "https://www.eventbrite.com/e/456",
                  "https://www.facebook.com/events/789",
                  "https://www.meetup.com/group/events/100",
                  "https://www.eventful.com/events/200",
                  "https://example.com/event/generic",
                  "https://WWW.MEETUP.com/g/Events/1",
                  "https://www.meetup.com/g/123",
                  "https://www.facebook.com/pages/123",
                  "https://www.eventbrite.com/e/ticketmaster-night-1",
                  "https://www.facebook.com/groups/memphis-events",
                  "https://example.com/blog/ticketmaster-review"} :
          /\ url' = u
          /\ result' = Str(get_site_adapter(u))
    /\ pc' = "done"
    /\ UNCHANGED <<location_filter, keyword_filter, event_data, now, parVars, srVars, hfVars, pwVars,
                   attempt_log, trail>>

\* _parse_event_from_jsonld applied to a page that holds up to MaxBlocks
\* structured-data blocks and nothing else.  A block is text that does not
\* parse, a scalar, an object or a list; the objects are Events (typed by a
\* string or by a one-element list), an Event whose normalization raises,
\* Events with a structured and with a bare-string address, and objects of
\* other or of several types.
Call__parse_event_from_jsonld ==
    /\ pc = "idle"
    /\ \E n \in 0..MaxBlocks :
          LET Typed(type, name) == Obj(("@type" :> type) @@ [name |-> Str(name)])
              Blocks == {Malformed,
                         Str("x"),
                         Typed(Str("Event"), "A"),
                         Typed(List(<<Str("Event")>>), "B"),
                         Typed(Str("Organization"), "Org"),
                         Typed(List(<<Str("Event"), Str("MusicEvent")>>), "D"),
                         List(<<Str("x"), Typed(Str("MusicEvent"), "M"), Typed(Str("Event"), "C")>>),
                         Obj(("@type" :> Str("Event")) @@
                             [name |-> Str("Z"),
                              location |-> Obj([address |-> Obj([postalCode |-> Num(90210)])])]),
                         Obj(("@type" :> Str("Event")) @@
                             [name |-> Str("Gig"),
                              location |-> Obj([name |-> Str("Hall"),
                                                address |-> Obj([streetAddress |-> Str("1 Main St"),
                                                                 addressRegion |-> Str(""),
                                                                 addressLocality |-> Str("Springfield")])])]),
                         Obj(("@type" :> Str("Event")) @@
                             [name |-> Str("Side"),
                              location |-> Obj([name |-> Null, address |-> Str("5 Side St")])])}
              Blank == CHOOSE d \in Docs : /\ d.scripts = <<>> /\ d.title = Null
                                           /\ d.og_title = Null /\ d.h1s = <<>>
          IN \E scripts \in [1..n -> Blocks] :
                /\ event_data' = Html([Blank EXCEPT !.scripts = scripts])
                /\ result' = _parse_event_from_jsonld(event_data'[2], "https://example.com/e/1")
    /\ op' = "_parse_event_from_jsonld"
    /\ url' = "https://example.com/e/1"
    /\ pc' = "done"
    /\ UNCHANGED <<location_filter, keyword_filter, now, parVars, srVars, hfVars, pwVars,
                   attempt_log, trail>>

\* the emission that writes the title it fell back to into its argument
Call_generate_ics_calendar_FillsDefaults ==
    /\ pc = "idle"
    /\ \E ev \in EventInputs, clock \in Clocks :
          LET after == IF IsDict(ev) /\ ~Truthy(Get(ev, "title"))
                       THEN Put(ev, "title", Str("Event")) ELSE ev
          IN /\ event_data' = List(<<ev, after>>)
             /\ now' = <<"clock", clock>>
             /\ result' = List(<<generate_ics_calendar(ev, clock),
                                 generate_ics_calendar(after, clock)>>)
    /\ op' = "generate_ics_calendar"
    /\ pc' = "done"
    /\ UNCHANGED <<url, location_filter, keyword_filter, parVars, srVars, hfVars, pwVars,
                   attempt_log, trail>>

\* generate_ics_calendar called twice on the same dict while the clock reads
\* the same.  event_data keeps the argument as it was given and as it stands
\* after the calls: the function reads it through .get only and builds new
\* strings, so the two are the same value.  result keeps both outputs.
Call_generate_ics_calendar ==
    /\ pc = "idle"
    /\ \E ev \in EventInputs, clock \in Clocks :
          LET after == ev
          IN /\ event_data' = List(<<ev, after>>)
             /\ now' = <<"clock", clock>>
             /\ result' = List(<<generate_ics_calendar(ev, clock),
                                 generate_ics_calendar(after, clock)>>)
    /\ op' = "generate_ics_calendar"
    /\ pc' = "done"
    /\ UNCHANGED <<url, location_filter, keyword_filter, parVars, srVars, hfVars, pwVars,
                   attempt_log, trail>>

SpecPure ==
    Init /\ [][Call_ensure_event_shape \/ Call_MergeFields \/ Call_get_site_adapter
                 \/ Call__parse_event_from_jsonld \/ Call_generate_ics_calendar]_vars

\* ------------------------------------------------------------------------
\* Concurrent requests.  Each request is a coroutine of scrapeEventPage or
\* scrapeEventPageWithFallbacks on the one event loop: the code between two
\* awaits runs without interruption, and the requests interleave at the
\* awaits of fetch_dynamic_html_with_playwright, check_ticket_availability
\* and capture_event_screenshot.  A request's record holds its locals.
\* ------------------------------------------------------------------------
\* One request run from where it stands to its next await or to its return:
\* r holds its locals, adapter is what the registry scan of line 483 gave
\* (read when the request starts), resp is what the awaited collaborator
\* (or, at the start, fetch_static_html) answered.
RunToAwait(r, adapter, resp) ==
    LET u == r.url
        \* hybrid_fetch has returned or raised h: lines 907-911 and 930-945
        AfterHybrid(r1, h) ==
            IF r1.op = "scrapeEventPage"
            THEN [r1 EXCEPT !.result = scrapeEventPageResult(h, u), !.pc = "done"]
            ELSE IF HybridSucceeded(h)
            THEN [r1 EXCEPT !.result = Put(h, "attempts",
                                List(r1.attempt_log \o <<Str("hybrid_fetch (SUCCESS)")>>)),
                            !.pc = "done"]
            ELSE [r1 EXCEPT !.attempt_log = Append(r1.attempt_log,
                                IF IsRaise(h)
                                THEN Str("hybrid_fetch (failed: " \o Take(h[2], AttemptMsgCap) \o ")")
                                ELSE Str("hybrid_fetch (returned incomplete data)")),
                            !.pc = "await_ticket"]
        \* lines 489-515
        StaticDone(r1, ev) ==
            IF IsRaise(ev) THEN AfterHybrid(r1, ev)
            ELSE IF Truthy(ev) /\ is_event_rich(ev)
            THEN AfterHybrid([r1 EXCEPT !.static_event = ev], TierSuccess(ev, "static"))
            ELSE [r1 EXCEPT !.static_event = ev, !.pc = "await_dynamic"]
        \* lines 516-549
        DynamicDone(r1, ev) ==
            IF IsRaise(ev) THEN AfterHybrid(r1, ev)
            ELSE IF Truthy(ev) /\ is_event_rich(ev)
            THEN AfterHybrid(r1, TierSuccess(ev, "playwright"))
            ELSE AfterHybrid(r1, TotalFailure(r1.static_event, ev, u))
        \* lines 946-968
        TicketDone(r1) ==
            IF TicketAccepted(resp)
            THEN LET log == Append(r1.attempt_log,
                                   Str("checkTicketAvailability (extracted partial data)"))
                 IN [r1 EXCEPT !.attempt_log = log,
                               !.result = Obj([event |-> TicketEvent(resp, u),
                                               scrape_method |-> Str("fallback_ticket_check"),
                                               attempts |-> List(log)]),
                               !.pc = "done"]
            ELSE [r1 EXCEPT !.pc = "await_screenshot"]
        \* lines 969-992
        ScreenshotDone(r1) ==
            IF ScreenshotAccepted(resp)
            THEN LET log == Append(r1.attempt_log,
                                   Str("captureEventScreenshot (visual capture succeeded)"))
                 IN [r1 EXCEPT !.attempt_log = log,
                               !.result = Obj([event |-> ensure_event_shape(Null, u),
                                               scrape_method |-> Str("fallback_screenshot"),
                                               screenshot_data |-> resp,
                                               note |-> Str("Unable to extract text data, but screenshot captured for manual review"),
                                               attempts |-> List(log)]),
                               !.pc = "done"]
            ELSE LET log == Append(r1.attempt_log, Str("all_strategies_exhausted"))
                 IN [r1 EXCEPT !.attempt_log = log,
                               !.result = Obj([event |-> ensure_event_shape(Null, u),
                                               scrape_method |-> Str("all_fallbacks_failed"),
                                               error |-> Str("Could not extract event data using any available strategy"),
                                               attempts |-> List(log)]),
                               !.pc = "done"]
    IN CASE r.pc = "idle" ->
                StaticDone([r EXCEPT !.adapter = adapter, !.static_html = resp],
                           TierEvent(adapter, resp, u))
         [] r.pc = "await_dynamic" ->
                DynamicDone([r EXCEPT !.dynamic_html = resp], TierEvent(r.adapter, resp, u))
         [] r.pc = "await_ticket" -> TicketDone([r EXCEPT !.ticket_result = resp])
         [] r.pc = "await_screenshot" -> ScreenshotDone([r EXCEPT !.screenshot_result = resp])

\* what the collaborator a request waits for can answer: no document, a rich
\* one or one whose extraction raises; a ticket probe that found a buy
\* button; a screenshot or none
Responses(r) ==
    LET ParDocs == {d \in Docs : (d.og_title # Null /\ d.times # <<>>) \/ d.title = Str("Gig")}
        info == CHOOSE t \in TicketInfos : Get(t, "has_buy_button") = Bool(TRUE)
    IN CASE r.pc = "idle" ->
                IF Reachable(r.url) THEN {Null} \cup {Html(d) : d \in ParDocs} ELSE {Null}
         [] r.pc = "await_dynamic" -> {Null} \cup {Html(d) : d \in ParDocs}
         [] r.pc = "await_ticket" -> {TicketReturn(r.url, info)}
         [] r.pc = "await_screenshot" ->
                {Obj([url |-> Str(r.url), screenshot_base64 |-> Str("aVZCT1J3MEtHZ28="),
                      format |-> Str("png")]),
                 ErrorReturn("screenshot", r.url, "goto failed")}

\* a request that remembers the adapter it matched by moving it to the
\* front of the shared registry
Par_Begin_CachesAdapter ==
    /\ \E i \in 1..MaxRequests, o \in HybridOps,
          u \in {"", "https://www.eventbrite.com/e/456",
                 "https://www.eventbrite.com/e/ticketmaster-night-1"} :
          /\ reqs[i].pc = "idle"
          /\ LET r == [reqs[i] EXCEPT !.op = o, !.url = u]
                 hits == SelectSeq(registry, LAMBDA a : AdapterMatches(a, u))
                 adapter == IF hits = <<>> THEN NoAdapter ELSE hits[1]
             IN /\ \E resp \in Responses(r) :
                      reqs' = [reqs EXCEPT ![i] = RunToAwait(r, adapter, resp)]
                /\ registry' = IF hits = <<>> THEN registry
                               ELSE <<adapter>> \o SelectSeq(registry, LAMBDA a : a # adapter)
    /\ UNCHANGED <<callVars, pc, srVars, hfVars, pwVars, attempt_log, trail, result>>

\* a request starts: the tool is called, hybrid_fetch scans the registry
\* (line 483), fetches the static document and runs to its first await
Par_Begin ==
    /\ \E i \in 1..MaxRequests, o \in HybridOps,
          u \in {"", "https://www.eventbrite.com/e/456",
                 "https://www.eventbrite.com/e/ticketmaster-night-1"} :
          /\ reqs[i].pc = "idle"
          /\ LET r == [reqs[i] EXCEPT !.op = o, !.url = u]
                 hits == SelectSeq(registry, LAMBDA a : AdapterMatches(a, u))
                 adapter == IF hits = <<>> THEN NoAdapter ELSE hits[1]
             IN /\ \E resp \in Responses(r) :
                      reqs' = [reqs EXCEPT ![i] = RunToAwait(r, adapter, resp)]
                /\ registry' = registry
    /\ UNCHANGED <<callVars, pc, srVars, hfVars, pwVars, attempt_log, trail, result>>

\* the event loop resumes a request whose awaited call has answered
Par_Resume ==
    /\ \E i \in 1..MaxRequests :
          /\ reqs[i].pc \in {"await_dynamic", "await_ticket", "await_screenshot"}
          /\ \E resp \in Responses(reqs[i]) :
                reqs' = [reqs EXCEPT ![i] = RunToAwait(reqs[i], reqs[i].adapter, resp)]
    /\ UNCHANGED <<callVars, pc, registry, srVars, hfVars, pwVars, attempt_log, trail, result>>

SpecPar == Init /\ [][Par_Begin \/ Par_Resume]_vars

\* ------------------------------------------------------------------------
\* Properties
\* ------------------------------------------------------------------------
\* all 15 canonical keys present and images a list
WellShaped(ev) ==
    /\ IsDict(ev)
    /\ CanonicalKeys \subseteq DOMAIN ev[2]
    /\ IsList(ev[2]["images"])

\* the record a tier's extraction produced is rich
YieldsRich(ev) == ~IsRaise(ev) /\ Truthy(ev) /\ is_event_rich(ev)

\* the tier's extraction completed (did not raise) without a rich record;
\* a failed fetch completes with no record at all
CompletedNonRich(ev) == ~IsRaise(ev) /\ ~(Truthy(ev) /\ is_event_rich(ev))

\* what extraction yields from the static document of this request
StaticOutcome == TierEvent(get_site_adapter(url), static_html, url)

\* hybrid_fetch has got past its static tier
StaticTierDone ==
    /\ op \in HybridOps
    /\ pc \notin {"idle", "hf_fetch_static", "hf_static_tier"}

Called(what) == \E i \in 1..Len(trail) : trail[i] = what

\* fetch_dynamic_html_with_playwright was called, after the static fetch
DynamicAttempted ==
    \E i, j \in 1..Len(trail) :
        i < j /\ trail[i] = "static_fetch" /\ trail[j] = "call:dynamic"

\* C1: every event record returned by hybrid_fetch, scrapeEventPage and
\* scrapeEventPageWithFallbacks, on every return path, has all 15 canonical
\* keys, and its images field is a list.
C1_ReturnedEventsFullyKeyed ==
    /\ (op \in HybridOps /\ pc = "hf_return" /\ ~IsRaise(hret))
            => WellShaped(Get(hret, "event"))
    /\ (op \in HybridOps /\ pc = "done")
            => (IsDict(result) /\ WellShaped(Get(result, "event")))

\* a partial static record was returned by the terminal-failure path
C1_Witness ==
    /\ op = "scrapeEventPage"
    /\ pc = "done"
    /\ Get(result, "scrape_method") = Str("failed")
    /\ Truthy(Get(Get(result, "event"), "title"))
    /\ Get(Get(result, "event"), "images") = List(<<>>)

\* C2: whenever the static tier ends without a rich record, because the
\* static fetch failed or because extraction from the static document
\* completed non-rich, fetch_dynamic_html_with_playwright is called after
\* the static fetch, and no result is handed back before that.
C2_NonRichStaticEscalates ==
    /\ (StaticTierDone /\ CompletedNonRich(StaticOutcome)) => DynamicAttempted
    /\ (op \in HybridOps /\ pc # "done") => result = NoValue

\* a non-rich static document, then a rich rendered one
C2_Witness ==
    /\ op = "scrapeEventPage"
    /\ pc = "done"
    /\ Truthy(static_html)
    /\ ~is_event_rich(static_event)
    /\ Get(result, "scrape_method") = Str("playwright")

\* C3: when the static tier's record is rich, that record is returned and no
\* browser is launched during the call: the dynamic tier is attempted only
\* after a static tier that was not rich.
C3_RichStaticReturnsWithoutBrowser ==
    (StaticTierDone /\ YieldsRich(StaticOutcome))
        => /\ ~Called("call:dynamic")
           /\ launched = 0
           /\ browser = "none"
           /\ pc = "done" =>
                /\ Get(result, "event") = Get(TierSuccess(StaticOutcome, "static"), "event")
                /\ Get(result, "scrape_method") = Get(Get(result, "event"), "scrape_method")

\* a rich static document served by scrapeEventPage
C3_Witness ==
    /\ op = "scrapeEventPage"
    /\ pc = "done"
    /\ Truthy(static_html)
    /\ is_event_rich(static_event)
    /\ Get(result, "scrape_method") = Str("static")
    /\ trail = <<"static_fetch">>

\* what extraction yields from the rendered document, when there is one
DynamicOutcome ==
    IF Called("call:dynamic") /\ pwret # NoValue
    THEN TierEvent(get_site_adapter(url), pwret, url)
    ELSE Null

\* the partial record of the dynamic tier (d) if it left one, else that of
\* the static tier (s), else the all-default record
BestPartial(s, d, u) ==
    LET PartialOf(ev) == IF ~IsRaise(ev) /\ Truthy(ev) THEN ev ELSE Null
    IN PyOr(PartialOf(d), PyOr(PartialOf(s), ensure_event_shape(Null, u)))

\* equal but for the scrape_method stamp
SameButMethod(a, b) == Put(a, "scrape_method", Null) = Put(b, "scrape_method", Null)

\* C4: when neither tier yields a rich record, scrapeEventPage returns a
\* result whose scrape_method is "failed", with a non-empty error text, and
\* whose event is the dynamic tier's partial record if there is one, else
\* the static tier's, else the all-default record for the input URL.
C4_NoRichTierReturnsFailed ==
    (/\ op = "scrapeEventPage"
     /\ pc = "done"
     /\ ~YieldsRich(StaticOutcome)
     /\ ~YieldsRich(DynamicOutcome))
        => /\ ~IsRaise(result)
           /\ Get(result, "scrape_method") = Str("failed")
           /\ Truthy(Get(result, "error"))
           /\ SameButMethod(Get(result, "event"),
                            BestPartial(StaticOutcome, DynamicOutcome, url))

StrategyCalls == SelectSeq(trail, LAMBDA e : e \in {"call:ticket", "call:screenshot"})

\* C6: in scrapeEventPageWithFallbacks a rich hybrid_fetch result is
\* returned at once with attempts = ["hybrid_fetch (SUCCESS)"] and neither
\* the ticket probe nor the screenshot capture is started; after a non-rich
\* result or an exception the ticket probe is the next strategy started.
C6_FallbacksGatedByRichness ==
    (op = "scrapeEventPageWithFallbacks" /\ hret # NoValue /\ pc # "hf_return")
        => IF ~IsRaise(hret) /\ is_event_rich(Get(hret, "event"))
           THEN /\ pc = "done"
                /\ result = Put(hret, "attempts", List(<<Str("hybrid_fetch (SUCCESS)")>>))
                /\ StrategyCalls = <<>>
                /\ ~Called("launch:ticket") /\ ~Called("launch:screenshot")
           ELSE /\ Len(StrategyCalls) >= 1
                /\ StrategyCalls[1] = "call:ticket"

\* hybrid_fetch raised and the ticket probe was started next
C6_Witness ==
    /\ op = "scrapeEventPageWithFallbacks"
    /\ IsRaise(hret)
    /\ pc = "pw_start"
    /\ bowner = "ticket"
    /\ StrategyCalls = <<"call:ticket">>

\* C7: in scrapeEventPageWithFallbacks, when the ticket probe fails (what it
\* returned reports an error) the screenshot capture is attempted next; when
\* that capture succeeds the result has scrape_method "fallback_screenshot",
\* the screenshot data, an empty fully keyed event and a note that text
\* extraction failed.
C7_FailedProbeFallsToScreenshot ==
    (op = "scrapeEventPageWithFallbacks" /\ pc = "done")
        => /\ (bowner = "ticket" /\ Truthy(Get(pwret, "error")))
                 => Called("call:screenshot")
           /\ (bowner = "screenshot" /\ ~Truthy(Get(pwret, "error")))
                 => /\ Get(result, "scrape_method") = Str("fallback_screenshot")
                    /\ Get(result, "screenshot_data") = pwret
                    /\ Get(result, "event") = ensure_event_shape(Null, url)
                    /\ Truthy(Get(result, "note"))

\* C8: none of the nine tools lets an exception reach its caller: whatever
\* its collaborators do, the call ends with a result value (a dict).
C8_NoExceptionReachesCaller ==
    /\ op \in {"idle", "scrapeEventPage", "scrapeEventPageWithFallbacks",
               "searchEventListings", "searchEventListingsWithRetry",
               "extractEventMedia", "checkTicketAvailability",
               "captureEventScreenshot", "generateEventPDF", "generateEventCalendar"}
    /\ pc = "done" => (~IsRaise(result) /\ IsDict(result))

\* extraction raised inside hybrid_fetch and scrapeEventPage still returned
C8_Witness ==
    /\ op = "scrapeEventPage"
    /\ pc = "done"
    /\ IsRaise(hret)
    /\ Get(result, "scrape_method") = Str("error")

\* C9: an exception raised during static-tier extraction degrades to the
\* next strategy: the dynamic tier is still attempted before the request
\* ends.
C9_StaticFaultStillRenders ==
    (op \in HybridOps /\ pc = "done" /\ IsRaise(StaticOutcome))
        => DynamicAttempted

\* C10: every function that launches a browser has closed it when it
\* returns, on the normal path, on the early return and on every error
\* path.
C10_BrowserClosedOnEveryExit ==
    (pc \in {"pw_done", "done"} /\ Called("launch:" \o bowner))
        => browser = "closed"

\* C11: searchEventListingsWithRetry runs its strategies in the fixed order
\* (1) the url with the caller's filters, (2) the same url without filters,
\* (3) the fallback listing urls; a later search starts only after the
\* previous one returned zero events or failed, and the operation returns at
\* the first search that yields at least one event.
C11_StrategiesInOrder ==
    [][op' = "searchEventListingsWithRetry" =>
        LET yields == ~IsRaise(pwret) /\ Truthy(Get(pwret, "events"))
            filtered == Truthy(location_filter') \/ Truthy(keyword_filter')
            n == Len(searches')
        IN /\ n >= 1
           /\ searches'[1] = <<url', location_filter', keyword_filter'>>
           /\ (n >= 2 /\ filtered) => searches'[2] = <<url', Null, Null>>
           /\ \A i \in 2..n :
                 (i > 2 \/ ~filtered) =>
                    \E k \in 1..Len(listing_paths) :
                       /\ k = i - (IF filtered THEN 2 ELSE 1)
                       /\ searches'[i] = <<UrlOrigin(url') \o listing_paths[k], Null, Null>>
           /\ (n > Len(searches) /\ n >= 2) => (pc = "pw_done" /\ ~yields)
           /\ (pc = "pw_done" /\ yields)
                 => (pc' = "done" /\ Get(result', "events") = Get(pwret, "events"))
           /\ (pc = "pw_done" /\ pc' = "done" /\ ~yields)
                 => Get(result', "strategy") = Str("all_failed")
    ]_vars

\* all three strategies ran and a fallback url yielded the events returned
C11_Witness ==
    /\ op = "searchEventListingsWithRetry"
    /\ pc = "done"
    /\ Len(searches) >= 3
    /\ searches[2] = <<url, Null, Null>>
    /\ Get(result, "strategy") = Str("fallback_url")
    /\ Truthy(Get(result, "events"))

\* C12: the fallback-url strategy of searchEventListingsWithRetry runs only
\* when the domain of the input url is a recognised platform
\* (eventbrite.com, ticketmaster.com, meetup.com); every fallback url is the
\* scheme and host of the input url followed by a listing path, is searched
\* without filters, and the paths are tried in the order /d/online/events/,
\* /d/united-states/events/, /search/, /events/, stopping at the first that
\* yields events.
C12_FallbackOnlyOnPlatformDomain ==
    op = "searchEventListingsWithRetry" =>
        LET base == IF Truthy(location_filter) \/ Truthy(keyword_filter) THEN 2 ELSE 1
            n == Len(searches)
        IN /\ \A i \in (base + 1)..n :
                 /\ \E platform \in {"eventbrite.com", "ticketmaster.com", "meetup.com"} :
                       Contains(Lower(UrlOrigin(url)), platform)
                 /\ i - base <= Len(listing_paths)
                 /\ searches[i] = <<UrlOrigin(url) \o listing_paths[i - base], Null, Null>>
           /\ (pc = "done" /\ n > base /\ Truthy(Get(result, "events")))
                 => /\ Get(result, "strategy") = Str("fallback_url")
                    /\ Get(result, "fallback_url") = Str(searches[n][1])
                    /\ Get(result, "events") = Get(pwret, "events")

\* C13: when no strategy of searchEventListingsWithRetry yielded an event,
\* the operation returns, without raising, events = [] with strategy
\* "all_failed", the retry_attempts trail, an error string and a non-empty
\* list of suggestions.
C13_ExhaustedReturnsSuggestions ==
    (/\ op = "searchEventListingsWithRetry"
     /\ pc = "done"
     /\ ~(~IsRaise(pwret) /\ Truthy(Get(pwret, "events"))))
        => /\ IsDict(result)
           /\ Get(result, "events") = List(<<>>)
           /\ Get(result, "strategy") = Str("all_failed")
           /\ Get(result, "retry_attempts") = List(attempt_log)
           /\ Len(attempt_log) >= 2
           /\ attempt_log[Len(attempt_log)] = Str("all_retry_strategies_exhausted")
           /\ IsStr(Get(result, "error")) /\ Truthy(Get(result, "error"))
           /\ IsList(Get(result, "suggestions")) /\ Truthy(Get(result, "suggestions"))

\* the filtered search, the unfiltered retry and the four fallback urls all
\* came back without events
C13_Witness ==
    /\ op = "searchEventListingsWithRetry"
    /\ pc = "done"
    /\ Len(searches) = 2 + Len(listing_paths)
    /\ Get(result, "strategy") = Str("all_failed")
    /\ Len(attempt_log) = 4

\* C14: the attempts list returned by scrapeEventPageWithFallbacks has one
\* entry for each strategy that was attempted (hybrid fetch, ticket probe,
\* screenshot capture), in the order of the attempts, on every return path,
\* also when the collaborator reported its failure as a value.
C14_AttemptsListEveryStrategy ==
    (op = "scrapeEventPageWithFallbacks" /\ pc = "done")
        => LET attempts == Get(result, "attempts")[2]
               entries == SelectSeq(attempts, LAMBDA a : a # Str("all_strategies_exhausted"))
           IN /\ Len(entries) = 1 + Len(StrategyCalls)
              /\ StartsWith(entries[1][2], "hybrid_fetch")
              /\ \A i \in 1..Len(StrategyCalls) :
                    StartsWith(entries[i + 1][2],
                               IF StrategyCalls[i] = "call:ticket"
                               THEN "checkTicketAvailability" ELSE "captureEventScreenshot")

\* C15: when the ticket probe of scrapeEventPageWithFallbacks succeeds, what
\* it discovered is folded into the fresh record returned with scrape_method
\* "fallback_ticket_check": a probe that detected price text never yields an
\* event whose price is null, and a probe that detected an availability
\* signal (sold out, buy button) never yields an event whose status is null.
C15_ProbeFieldsFolded ==
    (/\ op = "scrapeEventPageWithFallbacks"
     /\ pc = "done"
     /\ bowner = "ticket"
     /\ Truthy(Get(pwret, "ticket_info")))
        => LET info == Get(pwret, "ticket_info")
               event == Get(result, "event")
           IN /\ Get(result, "scrape_method") = Str("fallback_ticket_check")
              /\ Get(info, "price_text") # Str("N/A") => ~IsNull(Get(event, "price"))
              /\ (Get(info, "has_sold_out") = Bool(TRUE) \/ Get(info, "has_buy_button") = Bool(TRUE))
                    => ~IsNull(Get(event, "status"))

\* C16: scrapeEventPageWithFallbacks returns the best result found across
\* its strategies: any of title, start, location that hybrid_fetch extracted
\* in its best-effort record is still present in the event returned by a
\* later fallback strategy.
C16_FallbackKeepsHybridFields ==
    (/\ op = "scrapeEventPageWithFallbacks"
     /\ pc = "done"
     /\ hret # NoValue
     /\ ~IsRaise(hret))
        => \A k \in {"title", "start", "location"} :
              Truthy(Get(Get(hret, "event"), k))
                 => Get(Get(result, "event"), k) = Get(Get(hret, "event"), k)

\* C17: when an unexpected fault escapes hybrid_fetch, scrapeEventPage turns
\* it into the well-shaped failure result of total extraction failure: a
\* fully keyed event whose source_url is the input url, scrape_method
\* "failed", and an error field carrying the fault message.
C17_FaultBecomesFailedResult ==
    (op = "scrapeEventPage" /\ pc = "done" /\ IsRaise(hret))
        => /\ WellShaped(Get(result, "event"))
           /\ Get(Get(result, "event"), "source_url") = Str(url)
           /\ Get(result, "scrape_method") = Str("failed")
           /\ Get(result, "error") = Str(hret[2])

\* C18: in every result scrapeEventPage or scrapeEventPageWithFallbacks
\* returns for the url u, event.source_url equals u and is never null,
\* whatever the fetched documents and their structured data contain and
\* whichever tier, adapter or fallback produced the record.
C18_SourceUrlIsInputUrl ==
    (op \in HybridOps /\ pc = "done")
        => /\ Get(Get(result, "event"), "source_url") = Str(url)
           /\ (hret # NoValue /\ ~IsRaise(hret))
                 => Get(Get(hret, "event"), "source_url") = Str(url)

\* an adapter's rich record from structured data that names another url
C18_Witness ==
    /\ op \in HybridOps
    /\ pc = "done"
    /\ Get(result, "scrape_method") = Str("eventbrite_adapter")
    /\ IsDict(Get(Get(result, "event"), "raw_jsonld"))
    /\ Get(Get(Get(result, "event"), "raw_jsonld"), "url") = Str("https://tickets.example/gig")
    /\ Get(Get(result, "event"), "source_url") = Str(url)

\* C19: for every input record ev (None, a record missing keys, a record
\* that already carries a different non-null source_url) and every url u,
\* ensure_event_shape(ev, u) has every canonical key and its source_url
\* equals u.
C19_ShapeKeepsInputUrl ==
    (op = "ensure_event_shape" /\ pc = "done")
        => /\ CanonicalKeys \subseteq DOMAIN result[2]
           /\ Get(result, "source_url") = Str(url)

\* C20: the field-wise backfill of a primary record from a secondary one
\* gives, for every key: the primary's value when that is not None, "" or
\* []; otherwise the secondary's value when that is non-empty; and the
\* primary's empty value when both are empty.
C20_BackfillNeverOverwrites ==
    (op = "MergeFields" /\ pc = "done")
        => LET a == event_data[2][1]
               b == event_data[2][2]
               Empty == {Null, Str(""), List(<<>>)}
           IN /\ DOMAIN a[2] \subseteq DOMAIN result[2]
              /\ \A k \in (DOMAIN a[2]) \cup (DOMAIN b[2]) :
                    Get(result, k) =
                       IF Get(a, k) \notin Empty THEN Get(a, k)
                       ELSE IF Get(b, k) \notin Empty THEN Get(b, k)
                       ELSE Get(a, k)
              /\ \A k \in DOMAIN a[2] :
                    (Get(a, k) \in Empty /\ Get(b, k) \in Empty) => result[2][k] = a[2][k]

\* a primary title of 0 kept against a secondary text, and an empty
\* primary image list filled from the secondary
C20_Witness ==
    /\ op = "MergeFields"
    /\ pc = "done"
    /\ event_data = List(<<Obj([title |-> Num(0), images |-> List(<<>>)]),
                           Obj([title |-> Str("B"), images |-> List(<<Str("b.png")>>)])>>)
    /\ result = Obj([title |-> Num(0), images |-> List(<<Str("b.png")>>)])

\* C21: get_site_adapter(url) returns the first adapter, in the order
\* Ticketmaster, Eventbrite, Facebook, Meetup, Eventful, whose match
\* predicate holds for url, and none when no predicate holds; a url that
\* satisfies several predicates gets the earliest of them only.
C21_FirstMatchInRegistrationOrder ==
    (op = "get_site_adapter" /\ pc = "done")
        => LET order == <<"ticketmaster", "eventbrite", "facebook", "meetup", "eventful">>
               hits == SelectSeq(order, LAMBDA a : AdapterMatches(a, url))
           IN result = Str(IF hits = <<>> THEN "none" ELSE hits[1])

\* a url that the Ticketmaster and the Eventbrite predicates both match
C21_Witness ==
    /\ op = "get_site_adapter"
    /\ pc = "done"
    /\ AdapterMatches("ticketmaster", url)
    /\ AdapterMatches("eventbrite", url)
    /\ result = Str("ticketmaster")

\* C22: adapter matching is case-insensitive and tells event pages from the
\* other pages of a platform: a meetup.com url matches the Meetup adapter
\* iff it contains "/events/" in any letter case, and a facebook.com url
\* that is not an event page (a group, profile or /pages/ url) matches no
\* adapter.
C22_EventPagesOnly ==
    (op = "get_site_adapter" /\ pc = "done")
        => /\ Contains(Lower(url), "meetup.com")
                 => (result = Str("meetup") <=> Contains(Lower(url), "/events/"))
           /\ (/\ Contains(Lower(url), "facebook.com")
               /\ ~Contains(Lower(url), "facebook.com/events/"))
                 => result = Str("none")

\* C23: a url whose site is none of the five platforms is matched by no
\* adapter, whatever its path or query string contains.
C23_OtherSitesMatchNothing ==
    (/\ op = "get_site_adapter"
     /\ pc = "done"
     /\ \A site \in {"ticketmaster", "eventbrite", "facebook.com", "meetup.com", "eventful.com"} :
           ~Contains(Lower(UrlOrigin(url)), site))
        => result = Str("none")

\* C24: extract_event of every site adapter returns either none or a rich
\* record stamped with the adapter's own scrape_method (ticketmaster_adapter,
\* eventbrite_adapter, facebook_adapter, meetup_adapter, eventful_adapter),
\* and returns none exactly when the record it built fails the richness
\* check.
C24_AdapterReturnsRichOrNone ==
    (StaticTierDone /\ get_site_adapter(url) # NoAdapter /\ ~IsNull(static_html))
        => LET a == get_site_adapter(url)
               doc == static_html[2]
               stamp == Str(a \o "_adapter")
               h1 == IF a \in {"ticketmaster", "eventbrite"} THEN FirstH1Text(doc.h1s, a) ELSE ""
               og_image == IF Len(doc.og_images) > 0 /\ Truthy(doc.og_images[1])
                           THEN <<doc.og_images[1]>> ELSE <<>>
               Built(parsed) ==
                   IF a = "facebook"
                   THEN Obj([k \in CanonicalKeys |->
                              CASE k = "source_url" -> Str(url)
                                [] k = "title" -> safe_get_attr(doc.og_title, "content")
                                [] k = "description" -> safe_get_attr(doc.og_desc, "content")
                                [] k = "images" -> List(og_image)
                                [] k = "scrape_method" -> stamp
                                [] OTHER -> Null])
                   ELSE ensure_event_shape(
                           [parsed EXCEPT ![2] =
                               [x \in DOMAIN parsed[2] \cup {"scrape_method"} |->
                                   IF x = "scrape_method" THEN stamp
                                   ELSE IF x = "title" /\ h1 # "" THEN Str(h1)
                                   ELSE parsed[2][x]]],
                           url)
               Holds(r, parsed) ==
                   /\ ~IsRaise(r)
                   /\ r = Null \/ (is_event_rich(r) /\ Get(r, "scrape_method") = stamp)
                   /\ r = (IF is_event_rich(Built(parsed)) THEN Built(parsed) ELSE Null)
           IN Holds(extract_event(a, doc, url),
                    IF a = "facebook" THEN Null ELSE parse_event_html(doc, url))

\* C25: at each tier of hybrid_fetch, when the matched adapter returns none
\* or a record that is not rich, the generic pipeline is run on the same
\* document and the tier's record is the adapter's record backfilled field
\* by field from the generic record, or the generic record alone when the
\* adapter returned none; a rich adapter record is used as it is.
C25_TierFallsBackToGeneric ==
    LET a == get_site_adapter(url)
        TierRule(html, record) ==
            (a # NoAdapter /\ ~IsNull(html) /\ ~IsRaise(extract_event(a, html[2], url)))
                => LET fromAdapter == extract_event(a, html[2], url)
                       generic == parse_event_html(html[2], url)
                   IN IF Truthy(fromAdapter) /\ is_event_rich(fromAdapter)
                      THEN record = ensure_event_shape(fromAdapter, url)
                      ELSE /\ ~IsRaise(generic)
                           /\ record = ensure_event_shape(
                                          IF Truthy(fromAdapter)
                                          THEN MergeFields(fromAdapter, generic) ELSE generic,
                                          url)
    IN /\ StaticTierDone => TierRule(static_html, static_event)
       /\ (/\ op = "scrapeEventPage"
           /\ pc \in {"hf_return", "done"}
           /\ Called("call:dynamic"))
             => TierRule(pwret, dynamic_event)

\* C26: there is no retry at the transport level: within one hybrid_fetch
\* the static fetch is issued exactly once and the dynamic render at most
\* once; a failed static fetch is not repeated, it escalates to the dynamic
\* tier.
C26_NoTransportRetry ==
    op \in HybridOps =>
        LET Count(what) == Len(SelectSeq(trail, LAMBDA e : e = what))
        IN /\ Count("static_fetch") = (IF pc \in {"idle", "hf_fetch_static"} THEN 0 ELSE 1)
           /\ Count("call:dynamic") <= 1
           /\ Count("launch:dynamic") <= 1
           /\ (StaticTierDone /\ IsNull(static_html)) => DynamicAttempted

\* the static fetch failed once and the request went on to the browser
C26_Witness ==
    /\ op = "scrapeEventPage"
    /\ pc = "done"
    /\ IsNull(static_html)
    /\ trail = <<"static_fetch", "call:dynamic", "launch:dynamic">>
    /\ Get(result, "scrape_method") = Str("playwright")

\* C27: concurrent scrapeEventPage / scrapeEventPageWithFallbacks requests
\* are independent.  Whatever the interleaving at the awaits, the adapter
\* registry still holds its five adapters in registration order, and every
\* request stands exactly where a request running alone would stand after
\* the same url and the same collaborator answers: same adapter, same
\* position, same attempts, same result.
C27_RequestsIndependent ==
    /\ registry = SITE_ADAPTERS
    /\ \A i \in 1..MaxRequests :
          LET r == reqs[i]
              Fresh == [pc |-> "idle", op |-> r.op, url |-> r.url, adapter |-> NoAdapter,
                        static_html |-> NoValue, static_event |-> Null, dynamic_html |-> NoValue,
                        attempt_log |-> <<>>, ticket_result |-> NoValue,
                        screenshot_result |-> NoValue, result |-> NoValue]
              Feed(s, resp) == IF resp = NoValue \/ s.pc = "done" THEN s
                               ELSE RunToAwait(s, s.adapter, resp)
              Alone == Feed(Feed(Feed(RunToAwait(Fresh, get_site_adapter(r.url), r.static_html),
                                      r.dynamic_html),
                                 r.ticket_result),
                            r.screenshot_result)
          IN r.pc # "idle" => r = Alone

\* two requests in flight at once, each suspended at an await of its own:
\* one waits for its rendered page, the other, whose rendered page has
\* come back, waits for its ticket probe; each matched a different adapter
C27_Witness ==
    /\ reqs[1].pc = "await_dynamic"
    /\ reqs[1].url = "https://www.eventbrite.com/e/456"
    /\ reqs[1].adapter = "eventbrite"
    /\ reqs[2].pc = "await_ticket"
    /\ reqs[2].url = "https://www.eventbrite.com/e/ticketmaster-night-1"
    /\ reqs[2].adapter = "ticketmaster"
    /\ reqs[2].dynamic_html # NoValue

\* C28: _parse_event_from_jsonld goes through the structured-data blocks in
\* document order and, inside a list block, through its elements in order.
\* A block that does not parse or that is neither an object nor a list, and
\* an element that is no object, is passed over.  The result is the
\* normalization of the first object whose @type is "Event" or ["Event"],
\* whatever stands before it, and null when there is no such object.
C28_FirstEventInDocumentOrder ==
    op = "_parse_event_from_jsonld" =>
        LET blocks == event_data[2].scripts
            Payload(b) == IF blocks[b] = Malformed THEN <<>>
                          ELSE IF IsList(blocks[b]) THEN blocks[b][2]
                          ELSE IF IsDict(blocks[b]) THEN <<blocks[b]>>
                          ELSE <<>>
            Places == {<<b, k>> : b \in 1..Len(blocks), k \in 1..3}
            IsEventAt(p) ==
                /\ p[2] <= Len(Payload(p[1]))
                /\ IsDict(Payload(p[1])[p[2]])
                /\ Get(Payload(p[1])[p[2]], "@type") \in {Str("Event"), List(<<Str("Event")>>)}
            Before(p, q) == p[1] < q[1] \/ (p[1] = q[1] /\ p[2] < q[2])
        IN IF \E p \in Places : IsEventAt(p)
           THEN \E p \in Places :
                    /\ IsEventAt(p)
                    /\ \A q \in Places : Before(q, p) => ~IsEventAt(q)
                    /\ result = _normalize_event_from_jsonld(Payload(p[1])[p[2]], url)
           ELSE result = Null

\* a block that does not parse, then a list block whose third element is
\* the Event: the Event is returned
C28_Witness ==
    /\ op = "_parse_event_from_jsonld"
    /\ Len(event_data[2].scripts) = 2
    /\ event_data[2].scripts[1] = Malformed
    /\ IsList(event_data[2].scripts[2])
    /\ IsDict(result)
    /\ Get(result, "title") = Str("C")

\* C29: an event built by the generic extraction (parse_event_html:
\* structured data backfilled by the DOM heuristics) holds at most 5 images,
\* whether they come from the JSON-LD image field, from og:image tags or
\* from img elements.
C29_GenericImagesCapped ==
    (StaticTierDone /\ get_site_adapter(url) = NoAdapter /\ IsDict(static_event))
        => Len(Get(static_event, "images")[2]) <= DomImageCap

C31_RichNeedsTitle ==
    (op = "is_event_rich" /\ pc = "done")
        => LET Has(k) == /\ IsDict(event_data)
                         /\ k \in DOMAIN event_data[2]
                         /\ Truthy(event_data[2][k])
           IN /\ result = Bool(TRUE) => Has("title")
              /\ Has("title") => (result = Bool(Has("start") \/ Has("location")))

\* C32: search_event_listings tries the five event selectors in their order
\* and takes the elements of the first one that counts at least one; what
\* later selectors match is not used, and a selector whose count query
\* raises is passed over.  When no selector counts an element the search
\* returns its url, events = [] and an error, with no filter applied.
C32_FirstMatchingSelector ==
    (bowner = "search" /\ listing # NoValue) =>
        LET Matches(i) == listing[i][1] = "list" /\ listing[i][2] # <<>>
            matching == {i \in 1..Len(listing) : Matches(i)}
        IN IF matching = {}
           THEN /\ pc \in {"pw_done", "done"}
                /\ DOMAIN pwret[2] = {"url", "events", "error"}
                /\ Get(pwret, "url") = Str(target)
                /\ Get(pwret, "events") = List(<<>>)
                /\ Get(pwret, "error") = Str("Could not find event cards on page")
           ELSE \E i \in matching :
                    /\ \A k \in matching : i <= k
                    /\ cards = listing[i][2]
                    /\ (IsDict(pwret) /\ "total_found" \in DOMAIN pwret[2])
                          => Get(pwret, "total_found")[2] <= Len(listing[i][2])

\* the first selector's query raised, the second counted nothing, the third
\* matched two cards although the fifth matches another: the two are returned
C32_Witness ==
    /\ op = "searchEventListings"
    /\ pc = "done"
    /\ listing # NoValue
    /\ IsRaise(listing[1])
    /\ listing[3] = List(cards)
    /\ listing[5] # List(<<>>)
    /\ location_filter = Null /\ keyword_filter = Null
    /\ Get(result, "total_returned") = Num(2)

\* C33: the location of a normalized JSON-LD Event is the venue name and the
\* address joined with ", ", leaving out whichever is empty, and null when
\* both are; the address is the non-empty ones of streetAddress,
\* addressLocality, addressRegion, postalCode, addressCountry, in this
\* order, joined with ", ", or the address itself when it is a string.
C33_LocationJoinsNameAndAddress ==
    (/\ op = "_parse_event_from_jsonld"
     /\ Len(event_data[2].scripts) = 1
     /\ IsDict(event_data[2].scripts[1])
     /\ Get(event_data[2].scripts[1], "@type") = Str("Event"))
        => LET obj == event_data[2].scripts[1]
               loc == Get(obj, "location")
               name == IF IsDict(loc) THEN Get(loc, "name") ELSE Null
               addr == IF IsDict(loc) THEN Get(loc, "address") ELSE Null
               Texts(q) == LET kept == SelectSeq(q, LAMBDA v : ~IsNull(v) /\ v # Str(""))
                           IN [i \in 1..Len(kept) |-> ToText(kept[i])]
               address == IF IsStr(addr) THEN addr
                          ELSE IF IsDict(addr)
                          THEN Str(JoinStrs(Texts(<<Get(addr, "streetAddress"),
                                                    Get(addr, "addressLocality"),
                                                    Get(addr, "addressRegion"),
                                                    Get(addr, "postalCode"),
                                                    Get(addr, "addressCountry")>>)))
                          ELSE Null
               both == Texts(<<name, address>>)
           IN /\ IsDict(result)
              /\ Get(result, "location") = (IF both = <<>> THEN Null ELSE Str(JoinStrs(both)))

\* C34: _parse_event_from_dom always returns a record, and its title is the
\* first non-empty one of: the content of the og:title meta tag, the text of
\* the title element, the text of the first h1, each stripped; when none of
\* them is non-empty (an og:title tag with empty content included) the
\* title is null, not the empty string.
C34_DomTitleByPriority ==
    (/\ StaticTierDone
     /\ get_site_adapter(url) = NoAdapter
     /\ ~IsNull(static_html)
     /\ static_html[2].scripts = <<>>)
        => LET doc == static_html[2]
               og == IF IsDict(doc.og_title) /\ IsStr(Get(doc.og_title, "content"))
                     THEN <<Strip(Get(doc.og_title, "content")[2])>> ELSE <<>>
               tt == IF IsStr(doc.title) THEN <<Strip(doc.title[2])>> ELSE <<>>
               h1 == IF doc.h1s # <<>> THEN <<Strip(doc.h1s[1].text)>> ELSE <<>>
               found == SelectSeq(og \o tt \o h1, LAMBDA t : t # "")
           IN /\ IsDict(static_event)
              /\ Get(static_event, "title") = (IF found = <<>> THEN Null ELSE Str(found[1]))

\* C35: the scrape_method of a scrapeEventPage result names what produced
\* the record.  It is "static" only when the record is the generic
\* extraction of the statically fetched document and no browser was
\* launched in the call; "playwright" only when it is the generic extraction
\* of the rendered document; "<name>_adapter" only when the adapter that
\* matches the url produced the record; and "failed" in every other case.
C35_MethodNamesProducer ==
    (op = "scrapeEventPage" /\ pc = "done")
        => LET m == Get(result, "scrape_method")
               ev == Get(result, "event")
               a == get_site_adapter(url)
               rendered == Called("call:dynamic")
               FromGeneric(html) ==
                   /\ ~IsNull(html)
                   /\ IsDict(parse_event_html(html[2], url))
                   /\ SameButMethod(ev, parse_event_html(html[2], url))
               FromAdapter(html) ==
                   /\ ~IsNull(html)
                   /\ ev = extract_event(a, html[2], url)
           IN CASE m = Str("static") ->
                       ~rendered /\ launched = 0 /\ FromGeneric(static_html)
                [] m = Str("playwright") -> rendered /\ FromGeneric(pwret)
                [] a # NoAdapter /\ m = Str(a \o "_adapter") ->
                       FromAdapter(IF rendered THEN pwret ELSE static_html)
                [] OTHER -> m = Str("failed")

\* C36: in every result hybrid_fetch returns, the top-level scrape_method is
\* the scrape_method of the event, and these three hold together or not at
\* all: the event is rich, scrape_method is not "failed", the result has no
\* error field.
C36_FailedIffNotRichIffError ==
    (op \in HybridOps /\ hret # NoValue /\ ~IsRaise(hret))
        => LET rich == is_event_rich(Get(hret, "event"))
               succeeded == Get(hret, "scrape_method") # Str("failed")
               clean == "error" \notin DOMAIN hret[2]
           IN /\ Get(hret, "scrape_method") = Get(Get(hret, "event"), "scrape_method")
              /\ rich <=> succeeded
              /\ succeeded <=> clean

\* hybrid_fetch returns the failure result around a partial record: a title
\* from the rendered page and nothing else
C36_Witness ==
    /\ op \in HybridOps
    /\ pc = "hf_return"
    /\ IsDict(hret)
    /\ Get(hret, "scrape_method") = Str("failed")
    /\ "error" \in DOMAIN hret[2]
    /\ Truthy(Get(Get(hret, "event"), "title"))
    /\ IsDict(dynamic_event)

\* C37: the Facebook adapter never yields a record.  It fills title,
\* description and images only, so its record never passes the richness
\* check: extract_event returns none for every document handed to it, and no
\* result of scrapeEventPage or scrapeEventPageWithFallbacks carries the
\* scrape_method "facebook_adapter", at the top level or in the event.
C37_FacebookAdapterYieldsNothing ==
    LET fb == Str("facebook_adapter")
        Seen == {h \in {static_html, pwret} : h[1] = "html"}
    IN /\ (op \in HybridOps /\ get_site_adapter(url) = "facebook")
            => \A h \in Seen : extract_event("facebook", h[2], url) = Null
       /\ (op \in HybridOps /\ hret # NoValue /\ IsDict(hret))
            => /\ Get(hret, "scrape_method") # fb
               /\ IsDict(Get(hret, "event")) => Get(Get(hret, "event"), "scrape_method") # fb
       /\ (op \in {"scrapeEventPage", "scrapeEventPageWithFallbacks"} /\ pc = "done" /\ IsDict(result))
            => /\ Get(result, "scrape_method") # fb
               /\ IsDict(Get(result, "event")) => Get(Get(result, "event"), "scrape_method") # fb

\* a Facebook event page with an Open-Graph title and description was
\* scraped, and the record in the result is the generic pipeline's
C37_Witness ==
    /\ op = "scrapeEventPage"
    /\ pc = "done"
    /\ get_site_adapter(url) = "facebook"
    /\ ~IsNull(static_html)
    /\ Truthy(safe_get_attr(static_html[2].og_title, "content"))
    /\ Truthy(safe_get_attr(static_html[2].og_desc, "content"))
    /\ Get(result, "scrape_method") = Str("static")
    /\ Get(Get(result, "event"), "title") = safe_get_attr(static_html[2].og_title, "content")

\* C38: in every result of searchEventListingsWithRetry, strategy is one of
\* "primary", "retry_no_filters", "fallback_url", "all_failed"; the events
\* list is non-empty exactly when strategy is not "all_failed"; and
\* retry_attempts is present and non-empty whichever return was taken.
C38_StrategyTellsOutcome ==
    (op = "searchEventListingsWithRetry" /\ pc = "done")
        => /\ IsDict(result)
           /\ {"strategy", "events", "retry_attempts"} \subseteq DOMAIN result[2]
           /\ Get(result, "strategy") \in {Str("primary"), Str("retry_no_filters"),
                                           Str("fallback_url"), Str("all_failed")}
           /\ Get(result, "events")[1] = "list"
           /\ (Get(result, "events")[2] # <<>>) <=> (Get(result, "strategy") # Str("all_failed"))
           /\ Get(result, "retry_attempts")[1] = "list"
           /\ Get(result, "retry_attempts")[2] # <<>>
           /\ Get(result, "retry_attempts")[2] = attempt_log

\* the third fallback URL gave the events after the primary search and the
\* unfiltered retry gave none
C38_Witness ==
    /\ op = "searchEventListingsWithRetry"
    /\ pc = "done"
    /\ Get(result, "strategy") = Str("fallback_url")
    /\ fb_idx = 3
    /\ Len(searches) = 5
    /\ Len(Get(result, "retry_attempts")[2]) = 3
    /\ Get(result, "events")[2] # <<>>

\* C39: one searchEventListingsWithRetry call performs at most 6 listing
\* searches (1 primary, at most 1 unfiltered retry, at most 4 fallback URLs)
\* and never searches the same URL with the same filters twice; when the
\* caller gave no filters the unfiltered retry is skipped, so the original
\* URL is searched exactly once.
C39_NoSearchRepeated ==
    op = "searchEventListingsWithRetry"
        => LET n == Len(searches)
               unfiltered == ~Truthy(location_filter) /\ ~Truthy(keyword_filter)
               OfOriginal == {i \in 1..n : searches[i][1] = url}
           IN /\ n <= 2 + Len(listing_paths)
              /\ \A i, j \in 1..n : i < j => searches[i] # searches[j]
              /\ unfiltered => (OfOriginal = {1} /\ strategy # "retry")

\* C40: every scrapeEventPage, scrapeEventPageWithFallbacks and
\* searchEventListingsWithRetry call eventually returns a result, provided
\* every collaborator call it awaits completes (with success, failure or its
\* own timeout).  The ladder only moves forward: static fetch, then browser
\* render, then ticket probe, then screenshot, each entered at most once and
\* never after a later one; the search strategies go primary, unfiltered
\* retry, fallback URLs in list order, and never back.
C40_EveryCallReturns ==
    LET Tools == {"scrapeEventPage", "scrapeEventPageWithFallbacks", "searchEventListingsWithRetry"}
        Rank(e) == CASE e = "static_fetch" -> 1
                     [] e = "call:dynamic" -> 2
                     [] e = "call:ticket" -> 3
                     [] e = "call:screenshot" -> 4
        Ladder == SelectSeq(trail, LAMBDA e : e \in {"static_fetch", "call:dynamic",
                                                     "call:ticket", "call:screenshot"})
        Filtered == Truthy(location_filter) \/ Truthy(keyword_filter)
        Plan == <<<<url, location_filter, keyword_filter>>>>
                    \o (IF Filtered THEN <<<<url, Null, Null>>>> ELSE <<>>)
                    \o [k \in 1..Len(listing_paths) |-> <<UrlOrigin(url) \o listing_paths[k], Null, Null>>]
        Forward == op \in {"scrapeEventPage", "scrapeEventPageWithFallbacks"}
                       => \A i, j \in 1..Len(Ladder) : i < j => Rank(Ladder[i]) < Rank(Ladder[j])
        SearchForward == op = "searchEventListingsWithRetry"
                            => /\ Len(searches) <= Len(Plan)
                               /\ searches = SubSeq(Plan, 1, Len(searches))
    IN /\ []Forward
       /\ []SearchForward
       /\ (op \in Tools) ~> (op \in Tools /\ pc = "done" /\ IsDict(result))

\* a call that went down the whole ladder (static fetch, render, ticket
\* probe, screenshot, every one failing) has returned its result
C40_Witness ==
    /\ op = "scrapeEventPageWithFallbacks"
    /\ pc = "done"
    /\ SelectSeq(trail, LAMBDA e : e \in {"static_fetch", "call:dynamic", "call:ticket", "call:screenshot"})
         = <<"static_fetch", "call:dynamic", "call:ticket", "call:screenshot">>
    /\ IsDict(result)
    /\ Get(result, "scrape_method") = Str("all_fallbacks_failed")

====
